---- MODULE Spec2Model ----
(***************************************************************************)
(* Model of the VRChat join notifier core                                  *)
(* (src/src/vrchat_join_notification/app.py): the SessionTracker state     *)
(* machine with its notification cooldown, the LogMonitor tailing engine   *)
(* and the AppController start/stop of the monitor thread.                 *)
(*                                                                         *)
(* Text is modelled as sequences of one-character strings, so that         *)
(* strip(), lower() and startswith() are computed and not assumed.         *)
(* Optional values (None or a value) are <<>> or <<v>>.  Time is the UTC   *)
(* clock in whole seconds.                                                 *)
(***************************************************************************)
EXTENDS Integers, Sequences, FiniteSets, TLC

VARIABLES
    \* ---- SessionTracker fields (app.py 733-743)
    session_id, ready, source, seen_players, pending_room,
    session_started_at, session_last_join_at, session_last_join_raw,
    last_notified, local_user_id, pending_self_join,
    \* ---- environment of the tracker
    now,          \* what datetime.utcnow() returns
    sent,         \* sink invocations made by the handler that ran last
    lastEv,       \* the event handled last (history)
    repeated,     \* the event handled last is the one handled before it (history)
    lastSent,     \* key -> time of the last sink invocation for it (history)
    nEvents,      \* number of events handled so far (history)
    prevRoom,     \* pending_room before the event handled last (history)
    \* ---- a text function of the log reader applied to one line
    fn_arg,       \* the line it is called with (None when none is)
    fn_result     \* what it returned (None before the call)

trackerVars == <<session_id, ready, source, seen_players, pending_room,
                 session_started_at, session_last_join_at,
                 session_last_join_raw, last_notified, local_user_id,
                 pending_self_join, now, sent, lastEv, repeated, lastSent,
                 nEvents, prevRoom, fn_arg, fn_result>>

VARIABLES
    \* ---- the log directory, seen through os.path / os.scandir / open
    dirOk,        \* os.path.isdir(log_dir)
    files,        \* candidate file -> its bytes, for the files that exist
    mtime,        \* candidate file -> time of its last write
    fsClock,      \* number of writes made to the directory so far
    truncated,    \* files that were truncated at least once (history)
    \* ---- LogMonitor thread (app.py 1063-1136)
    pc,           \* where the thread is in run() / _follow_file()
    normalized,   \* _follow_file: normalized (None outside _follow_file)
    last_size,    \* _follow_file: last_size
    handle,       \* _follow_file: the open handle's offset (None when closed)
    position,     \* _follow_file: position
    stop,         \* _stop_event
    nErrors,      \* number of OSErrors raised so far (history)
    entrySize,    \* result of the getsize at the top of _follow_file (history)
    opens,        \* successful open() calls since _follow_file was entered (history)
    processed,    \* the calls of _process_line, in order (history)
    appended,     \* complete lines appended to a file while it was followed (history)
    queue,        \* log_switch and error events put on the queue (history)
    tailStep      \* the step the thread took last (history)

tailVars == <<dirOk, files, mtime, fsClock, truncated, pc, normalized, last_size,
              handle, position, stop, nErrors, entrySize, opens, processed,
              appended, queue, tailStep>>

VARIABLES
    \* ---- AppController and its monitor threads (app.py 1393-1413)
    monitors,     \* every LogMonitor created so far, in order of creation
    monitor,      \* self.monitor: index into monitors, or None
    ctl_pc,       \* where the UI thread is in start_monitoring / stop_monitoring
    nStarts,      \* number of button presses handled so far (history)
    vrchat_log_dir,  \* self.config.vrchat_log_dir
    log_dir_var,     \* the log directory field of the settings form
    snapshot      \* monitor -> config.vrchat_log_dir when it was started (history)

ctlVars == <<monitors, monitor, ctl_pc, nStarts, vrchat_log_dir, log_dir_var,
             snapshot>>

vars == <<trackerVars, tailVars, ctlVars>>

----------------------------------------------------------------------------
(* Bounds of the model *)

MaxEvents == 3
MaxSession == 3

(* Program constants *)

NOTIFY_COOLDOWN_SECONDS == 10
SESSION_FALLBACK_GRACE_SECONDS == 30
SESSION_FALLBACK_MAX_CONTINUATION_SECONDS == 4
PendingSelfJoinWindow == 10

----------------------------------------------------------------------------
(* Optional values *)

None == << >>
Some(x) == <<x>>
IsSome(o) == o # << >>
\* Python truth value of an Optional[timedelta]: None and timedelta(0) are false
TimedeltaTruthy(o) == o # << >> /\ o[1] # 0

EmptyMap == [k \in {} |-> 0]
MapPut(m, k, v) == [x \in DOMAIN m \cup {k} |-> IF x = k THEN v ELSE m[x]]
MapDrop(m, ks) == [x \in DOMAIN m \ ks |-> m[x]]

----------------------------------------------------------------------------
(* Text *)

UpperChars == <<"A","B","C","D","E","F","G","H","I","J","K","L","M",
                "N","O","P","Q","R","S","T","U","V","W","X","Y","Z">>
LowerChars == <<"a","b","c","d","e","f","g","h","i","j","k","l","m",
                "n","o","p","q","r","s","t","u","v","w","x","y","z">>
DigitChars == <<"0","1","2","3","4","5","6","7","8","9">>

LowerChar(c) ==
    IF \E i \in DOMAIN UpperChars : UpperChars[i] = c
    THEN LowerChars[CHOOSE i \in DOMAIN UpperChars : UpperChars[i] = c]
    ELSE c

\* str.lower()
Lower(s) == [i \in DOMAIN s |-> LowerChar(s[i])]

RECURSIVE LStripChars(_, _)
LStripChars(s, cs) ==
    IF s # << >> /\ Head(s) \in cs THEN LStripChars(Tail(s), cs) ELSE s

RECURSIVE RStripChars(_, _)
RStripChars(s, cs) ==
    IF s # << >> /\ s[Len(s)] \in cs
    THEN RStripChars(SubSeq(s, 1, Len(s) - 1), cs) ELSE s

StripChars(s, cs) == RStripChars(LStripChars(s, cs), cs)

WhiteSpace == {" ", "\t", "\n", "\r"}
\* str.strip()
Strip(s) == StripChars(s, WhiteSpace)

\* str.startswith()
StartsWith(s, p) == Len(p) <= Len(s) /\ SubSeq(s, 1, Len(p)) = p

\* str(int) for a non-negative integer
RECURSIVE IntToStr(_)
IntToStr(n) ==
    IF n < 10 THEN <<DigitChars[n + 1]>>
    ELSE IntToStr(n \div 10) \o <<DigitChars[(n % 10) + 1]>>

\* "ZW" stands for one of the zero-width characters U+200B..U+200D, U+FEFF
ZeroWidth == {"ZW"}
\* "FW" stands for the full-width space U+3000
FullWidthSpace == "FW"
DashColonPipe == {"-", ":", "|"}
NameLimit == 160

RECURSIVE strip_zero_width(_)
strip_zero_width(s) ==
    IF s = << >> THEN << >>
    ELSE IF Head(s) \in ZeroWidth THEN strip_zero_width(Tail(s))
    ELSE <<Head(s)>> \o strip_zero_width(Tail(s))

\* str.replace("||", "|")
RECURSIVE ReplaceDoublePipe(_)
ReplaceDoublePipe(s) ==
    IF Len(s) < 2 THEN s
    ELSE IF s[1] = "|" /\ s[2] = "|"
         THEN <<"|">> \o ReplaceDoublePipe(SubSeq(s, 3, Len(s)))
         ELSE <<s[1]>> \o ReplaceDoublePipe(Tail(s))

normalize_join_fragment(text) ==
    LET c1 == strip_zero_width(text)
        c2 == [i \in DOMAIN c1 |-> IF c1[i] = FullWidthSpace THEN " " ELSE c1[i]]
        c3 == StripChars(StripChars(Strip(c2), {"\""}), {"'"})
        c4 == ReplaceDoublePipe(c3)
        c5 == Strip(LStripChars(c4, DashColonPipe))
        c6 == IF Len(c5) > NameLimit THEN Strip(SubSeq(c5, 1, NameLimit)) ELSE c5
    IN  IF c6 # << >> /\ \A i \in DOMAIN c6 : c6[i] \in DashColonPipe
        THEN << >> ELSE c6

normalize_join_name(name) == normalize_join_fragment(name)

PlaceholderNames ==
    { <<"p","l","a","y","e","r">>, <<"y","o","u">>,
      <<"s","o","m","e","o","n","e">>, <<"a"," ","p","l","a","y","e","r">> }

is_placeholder_name(name) ==
    name = << >> \/ Lower(Strip(name)) \in PlaceholderNames

----------------------------------------------------------------------------
(* SessionTracker.  A tracker state s is the record of its fields; every   *)
(* method is an operator from the state before to the state after.  s.sent *)
(* collects the sink invocations of the handler being run.                 *)

SourceFallback == "OnPlayerJoined fallback"
ConfirmedSource == "OnJoinedRoom"

JoinPrefix == <<"j","o","i","n",":">>
SelfPrefix == <<"s","e","l","f",":">>

\* hashlib.md5(text).hexdigest()[:8] of the log lines of the model
Md5Hex8(text) ==
    CASE text = "[Behaviour] OnPlayerJoined Bob" ->
            <<"3","3","f","0","8","2","f","7">>
      [] text = "2024.01.01 12:00:05 [Behaviour] OnPlayerJoined Bob" ->
            <<"7","f","0","1","8","6","3","a">>
      [] text = "[Behaviour] OnPlayerJoined" ->
            <<"d","b","8","e","4","3","e","0">>
      [] OTHER -> <<"0","0","0","0","0","0","0","0">>

get_short_hash(text) == IF text = "" THEN << >> ELSE Md5Hex8(text)

Tracker ==
    [ session_id |-> session_id, ready |-> ready, source |-> source,
      seen_players |-> seen_players, pending_room |-> pending_room,
      session_started_at |-> session_started_at,
      session_last_join_at |-> session_last_join_at,
      session_last_join_raw |-> session_last_join_raw,
      last_notified |-> last_notified, local_user_id |-> local_user_id,
      pending_self_join |-> pending_self_join, sent |-> << >> ]

SessionTracker_init ==
    [ session_id |-> 0, ready |-> FALSE, source |-> "",
      seen_players |-> EmptyMap, pending_room |-> None,
      session_started_at |-> None, session_last_join_at |-> None,
      session_last_join_raw |-> None, last_notified |-> EmptyMap,
      local_user_id |-> << >>, pending_self_join |-> None, sent |-> << >> ]

reset_session_state_KeepIdentity(s) ==
    [s EXCEPT !.ready = FALSE, !.source = "", !.seen_players = EmptyMap,
              !.session_started_at = None, !.session_last_join_at = None,
              !.session_last_join_raw = None, !.pending_room = None,
              !.pending_self_join = None]

reset_session_state_KeepPending(s) ==
    [s EXCEPT !.ready = FALSE, !.source = "", !.seen_players = EmptyMap,
              !.session_started_at = None, !.session_last_join_at = None,
              !.session_last_join_raw = None, !.pending_room = None,
              !.local_user_id = << >>]

reset_session_state_ZeroId(s) ==
    [s EXCEPT !.session_id = 0,
              !.ready = FALSE, !.source = "", !.seen_players = EmptyMap,
              !.session_started_at = None, !.session_last_join_at = None,
              !.session_last_join_raw = None, !.pending_room = None,
              !.local_user_id = << >>, !.pending_self_join = None]

reset_session_state(s) ==
    [s EXCEPT !.ready = FALSE, !.source = "", !.seen_players = EmptyMap,
              !.session_started_at = None, !.session_last_join_at = None,
              !.session_last_join_raw = None, !.pending_room = None,
              !.local_user_id = << >>, !.pending_self_join = None]

ensure_session_ready_NoIncrement(s, reason, t) ==
    IF s.ready THEN s
    ELSE [s EXCEPT !.ready = TRUE,
                   !.source = IF reason = "" THEN "unknown trigger" ELSE reason,
                   !.seen_players = EmptyMap,
                   !.session_started_at = Some(t),
                   !.session_last_join_at = None,
                   !.session_last_join_raw = None]

ensure_session_ready_FirstId(s, reason, t) ==
    IF s.ready THEN s
    ELSE [s EXCEPT !.session_id = 1, !.ready = TRUE,
                   !.source = IF reason = "" THEN "unknown trigger" ELSE reason,
                   !.seen_players = EmptyMap,
                   !.session_started_at = Some(t),
                   !.session_last_join_at = None,
                   !.session_last_join_raw = None]

ensure_session_ready_ConsumesRoom(s, reason, t) ==
    IF s.ready THEN s
    ELSE [s EXCEPT !.session_id = s.session_id + 1, !.ready = TRUE,
                   !.source = IF reason = "" THEN "unknown trigger" ELSE reason,
                   !.seen_players = EmptyMap,
                   !.session_started_at = Some(t),
                   !.session_last_join_at = None,
                   !.session_last_join_raw = None,
                   !.pending_room = None]

ensure_session_ready(s, reason, t) ==
    IF s.ready THEN s
    ELSE [s EXCEPT !.session_id = s.session_id + 1, !.ready = TRUE,
                   !.source = IF reason = "" THEN "unknown trigger" ELSE reason,
                   !.seen_players = EmptyMap,
                   !.session_started_at = Some(t),
                   !.session_last_join_at = None,
                   !.session_last_join_raw = None]

InCooldown_Inclusive(s, key, t) ==
    /\ key \in DOMAIN s.last_notified
    /\ t - s.last_notified[key] <= NOTIFY_COOLDOWN_SECONDS

\* a cooldown entry exists and is younger than the cooldown
InCooldown(s, key, t) ==
    /\ key \in DOMAIN s.last_notified
    /\ t - s.last_notified[key] < NOTIFY_COOLDOWN_SECONDS

notify_all_NoRecord(s, key, t) ==
    IF InCooldown(s, key, t) THEN s
    ELSE [s EXCEPT !.sent = s.sent \o << [sink |-> "notifier", key |-> key],
                                        [sink |-> "pushover", key |-> key] >>]

notify_all_RecordsAttempt(s, key, t) ==
    IF InCooldown(s, key, t)
    THEN [s EXCEPT !.last_notified = MapPut(s.last_notified, key, t)]
    ELSE [s EXCEPT !.last_notified = MapPut(s.last_notified, key, t),
                   !.sent = s.sent \o << [sink |-> "notifier", key |-> key],
                                        [sink |-> "pushover", key |-> key] >>]

notify_all(s, key, t) ==
    IF InCooldown(s, key, t) THEN s
    ELSE [s EXCEPT !.last_notified = MapPut(s.last_notified, key, t),
                   !.sent = s.sent \o << [sink |-> "notifier", key |-> key],
                                        [sink |-> "pushover", key |-> key] >>]

DesktopNotifier_send_Propagates(fails) == IF fails THEN "raised" ELSE "returned"

\* DesktopNotifier.send (462-480): an exception of notify-send is caught and
\* logged, and send returns
DesktopNotifier_send(fails) == "returned"

\* PushoverClient.send (496-523): an exception of the request is caught and
\* logged, and send returns
PushoverClient_send(fails) == "returned"

\* self.notifier.send(...); self.pushover.send(...)  (791-792): the sinks
\* invoked, and the exception that leaves notify_all if a send raises
SendAll(key, nfails, pfails) ==
    LET raised == << [sink |-> "raised", key |-> key] >>
    IN  << [sink |-> "notifier", key |-> key] >>
        \o (IF DesktopNotifier_send(nfails) = "raised" THEN raised
            ELSE << [sink |-> "pushover", key |-> key] >>
                 \o (IF PushoverClient_send(pfails) = "raised" THEN raised
                     ELSE << >>))

\* notify_all with the outcome of each sink's delivery as an input
notify_all_sinks(s, key, t, nfails, pfails) ==
    IF InCooldown(s, key, t) THEN s
    ELSE [s EXCEPT !.last_notified = MapPut(s.last_notified, key, t),
                   !.sent = s.sent \o SendAll(key, nfails, pfails)]

handle_log_switch_KeepRoom(s, path) ==
    [reset_session_state(s) EXCEPT !.pending_room = s.pending_room]

handle_log_switch(s, path) == reset_session_state(s)

handle_room_enter(s, world, instance, raw_line) ==
    [s EXCEPT !.pending_room =
        Some([world |-> world, instance |-> instance, raw |-> raw_line])]

handle_room_left_IfReady(s) == IF s.ready THEN reset_session_state(s) ELSE s

handle_room_left(s) == reset_session_state(s)

\* max(self.seen_players.values())
MaxValue(m) == CHOOSE v \in {m[k] : k \in DOMAIN m} : \A k \in DOMAIN m : m[k] <= v

ReuseFallback_AnyOpenSession(s, t) == s.ready

ReuseFallback_FromSeen(s, t) ==
    LET is_fallback == s.ready /\ s.source = SourceFallback
        fallback_join_count == Cardinality(DOMAIN s.seen_players)
        elapsed_since_fallback ==
            IF IsSome(s.session_started_at)
            THEN Some(t - s.session_started_at[1]) ELSE None
        last_join ==
            IF DOMAIN s.seen_players # {}
            THEN Some(MaxValue(s.seen_players)) ELSE None
        last_join_gap ==
            IF fallback_join_count > 0 /\ IsSome(last_join)
            THEN Some(t - last_join[1]) ELSE None
        within_grace ==
            /\ IsSome(elapsed_since_fallback)
            /\ elapsed_since_fallback[1] < SESSION_FALLBACK_GRACE_SECONDS
        within_join_gap ==
            /\ within_grace
            /\ \/ fallback_join_count <= 0
               \/ /\ TimedeltaTruthy(last_join_gap)
                  /\ last_join_gap[1] <= SESSION_FALLBACK_MAX_CONTINUATION_SECONDS
    IN  is_fallback /\ within_grace /\ within_join_gap

\* The decision of handle_self_join (826-847) to keep the open fallback session
ReuseFallback(s, t) ==
    LET is_fallback == s.ready /\ s.source = SourceFallback
        fallback_join_count == Cardinality(DOMAIN s.seen_players)
        elapsed_since_fallback ==
            IF IsSome(s.session_started_at)
            THEN Some(t - s.session_started_at[1]) ELSE None
        last_join ==
            IF IsSome(s.session_last_join_at) THEN s.session_last_join_at
            ELSE IF DOMAIN s.seen_players # {}
                 THEN Some(MaxValue(s.seen_players)) ELSE None
        last_join_gap ==
            IF fallback_join_count > 0 /\ IsSome(last_join)
            THEN Some(t - last_join[1]) ELSE None
        within_grace ==
            /\ IsSome(elapsed_since_fallback)
            /\ elapsed_since_fallback[1] < SESSION_FALLBACK_GRACE_SECONDS
        within_join_gap ==
            /\ within_grace
            /\ \/ fallback_join_count <= 0
               \/ /\ TimedeltaTruthy(last_join_gap)
                  /\ last_join_gap[1] <= SESSION_FALLBACK_MAX_CONTINUATION_SECONDS
    IN  is_fallback /\ within_grace /\ within_join_gap

RestorePending_Dropped(r, pending) == r

\* 879-882: the room seen before the session survives the reset
RestorePending(r, pending) ==
    IF IsSome(pending) THEN [r EXCEPT !.pending_room = pending] ELSE r

\* parsed is parse_player_event_line(raw_line, "OnJoinedRoom"), None when the
\* line is empty or does not parse
handle_self_join(s, raw_line, parsed, t, running) ==
    IF ~running THEN s
    ELSE
    LET s1 == IF ReuseFallback(s, t)
              THEN [s EXCEPT !.source = ConfirmedSource]
              ELSE ensure_session_ready(
                       RestorePending(reset_session_state(s), s.pending_room),
                       ConfirmedSource, t)
        has_parse == raw_line # "" /\ IsSome(parsed)
        parsed_user == IF has_parse THEN Strip(parsed[1].user_id) ELSE << >>
        parsed_placeholder ==
            IF has_parse THEN normalize_join_name(parsed[1].placeholder) ELSE << >>
        s2 == IF parsed_user # << >>
              THEN [s1 EXCEPT !.local_user_id = Lower(parsed_user)] ELSE s1
        label0 == IF parsed_placeholder # << >> THEN parsed_placeholder
                  ELSE <<"P","l","a","y","e","r">>
        placeholder_label ==
            IF Lower(label0) = <<"y","o","u">> THEN <<"P","l","a","y","e","r">>
            ELSE label0
        key == SelfPrefix \o IntToStr(s2.session_id)
        s3 == notify_all(s2, key, t)
    IN  [s3 EXCEPT !.pending_self_join =
            Some([session_id |-> s3.session_id,
                  placeholder |-> placeholder_label, timestamp |-> t])]

\* The test of handle_player_join (944-966) that the join is the local
\* player's own join line following a self join
MatchesPendingSelf_Inclusive(s, original_name, cleaned_placeholder, event_time) ==
    /\ IsSome(s.pending_self_join)
    /\ s.pending_self_join[1].session_id = s.session_id
    /\ LET pending_lower ==
               Lower(normalize_join_name(s.pending_self_join[1].placeholder))
           lower0 == Lower(cleaned_placeholder)
           event_placeholder_lower ==
               IF lower0 = << >> /\ is_placeholder_name(original_name)
               THEN Lower(original_name) ELSE lower0
           age_ok == event_time - s.pending_self_join[1].timestamp
                        <= PendingSelfJoinWindow
       IN  /\ age_ok
           /\ pending_lower \in {<<"p","l","a","y","e","r">>, <<"y","o","u">>}
           /\ \/ pending_lower = event_placeholder_lower
              \/ /\ event_placeholder_lower = << >>
                 /\ is_placeholder_name(original_name)

MatchesPendingSelf(s, original_name, cleaned_placeholder, event_time) ==
    /\ IsSome(s.pending_self_join)
    /\ s.pending_self_join[1].session_id = s.session_id
    /\ LET pending_lower ==
               Lower(normalize_join_name(s.pending_self_join[1].placeholder))
           lower0 == Lower(cleaned_placeholder)
           event_placeholder_lower ==
               IF lower0 = << >> /\ is_placeholder_name(original_name)
               THEN Lower(original_name) ELSE lower0
           age_ok == event_time - s.pending_self_join[1].timestamp
                        < PendingSelfJoinWindow
       IN  /\ age_ok
           /\ pending_lower \in {<<"p","l","a","y","e","r">>, <<"y","o","u">>}
           /\ \/ pending_lower = event_placeholder_lower
              \/ /\ event_placeholder_lower = << >>
                 /\ is_placeholder_name(original_name)

AlreadySeen_Never(s, join_key) == FALSE

\* 1004: the join was already announced in this session
AlreadySeen(s, join_key) == join_key \in DOMAIN s.seen_players

UnknownUser ==
    <<"U","n","k","n","o","w","n"," ","V","R","C","h","a","t"," ","u","s","e","r">>

\* The dedup key of a join (989-1003)
JoinKey_NameFirst(sid, cleaned_name0, cleaned_user, raw_line) ==
    LET name1 == IF cleaned_user # << >>
                    /\ (cleaned_name0 = << >> \/ is_placeholder_name(cleaned_name0))
                 THEN cleaned_user ELSE cleaned_name0
        cleaned_name == IF name1 = << >> THEN UnknownUser ELSE name1
        key_base == Lower(cleaned_name)
        hash_suffix == IF cleaned_user = << >> /\ raw_line # ""
                       THEN get_short_hash(raw_line) ELSE << >>
    IN  JoinPrefix \o IntToStr(sid) \o <<":">> \o key_base
        \o (IF hash_suffix # << >> THEN <<":">> \o hash_suffix ELSE << >>)

JoinKey_NoSession(sid, cleaned_name0, cleaned_user, raw_line) ==
    LET user_key == Lower(cleaned_user)
        name1 == IF cleaned_user # << >>
                    /\ (cleaned_name0 = << >> \/ is_placeholder_name(cleaned_name0))
                 THEN cleaned_user ELSE cleaned_name0
        cleaned_name == IF name1 = << >> THEN UnknownUser ELSE name1
        key_base == IF user_key # << >> THEN user_key ELSE Lower(cleaned_name)
        hash_suffix == IF cleaned_user = << >> /\ raw_line # ""
                       THEN get_short_hash(raw_line) ELSE << >>
    IN  JoinPrefix \o key_base
        \o (IF hash_suffix # << >> THEN <<":">> \o hash_suffix ELSE << >>)

JoinKey(sid, cleaned_name0, cleaned_user, raw_line) ==
    LET user_key == Lower(cleaned_user)
        name1 == IF cleaned_user # << >>
                    /\ (cleaned_name0 = << >> \/ is_placeholder_name(cleaned_name0))
                 THEN cleaned_user ELSE cleaned_name0
        cleaned_name == IF name1 = << >> THEN UnknownUser ELSE name1
        key_base == IF user_key # << >> THEN user_key ELSE Lower(cleaned_name)
        hash_suffix == IF cleaned_user = << >> /\ raw_line # ""
                       THEN get_short_hash(raw_line) ELSE << >>
    IN  JoinPrefix \o IntToStr(sid) \o <<":">> \o key_base
        \o (IF hash_suffix # << >> THEN <<":">> \o hash_suffix ELSE << >>)

KnownLocalUser_CaseSensitive(s, cleaned_user) ==
    /\ cleaned_user # << >>
    /\ s.local_user_id # << >>
    /\ cleaned_user = s.local_user_id

\* 938-939: the join carries the user id learned as the local user's
KnownLocalUser(s, cleaned_user) ==
    /\ Lower(cleaned_user) # << >>
    /\ s.local_user_id # << >>
    /\ Lower(cleaned_user) = s.local_user_id

handle_player_join_KeepsPending(s, name, user_id, raw_line, placeholder, t, running) ==
    IF ~running THEN s
    ELSE
    LET s0 == IF ~s.ready THEN ensure_session_ready(s, SourceFallback, t) ELSE s
        event_time == t
        s1 == [s0 EXCEPT !.session_last_join_at = Some(event_time),
                         !.session_last_join_raw = Some(raw_line)]
        cleaned_name == normalize_join_name(name)
        original_name == cleaned_name
        cleaned_placeholder == normalize_join_name(placeholder)
        cleaned_user == Strip(user_id)
        user_key == Lower(cleaned_user)
        was_placeholder == is_placeholder_name(cleaned_name)
        is_fallback_session == s1.source = SourceFallback
        join_key == JoinKey(s1.session_id, cleaned_name, cleaned_user, raw_line)
    IN  IF KnownLocalUser(s1, cleaned_user)
        THEN [s1 EXCEPT !.pending_self_join = None]
        ELSE IF MatchesPendingSelf(s1, original_name, cleaned_placeholder, event_time)
        THEN [s1 EXCEPT !.local_user_id =
                            IF user_key # << >> /\ s1.local_user_id = << >>
                            THEN user_key ELSE @]
        ELSE IF was_placeholder /\ user_key # << >>
                /\ is_fallback_session /\ s1.local_user_id = << >>
        THEN [s1 EXCEPT !.local_user_id = user_key, !.pending_self_join = None]
        ELSE IF was_placeholder /\ user_key # << >>
                /\ s1.local_user_id # << >> /\ s1.local_user_id = user_key
        THEN [s1 EXCEPT !.pending_self_join = None]
        ELSE IF AlreadySeen(s1, join_key)
        THEN s1
        ELSE notify_all(
                [s1 EXCEPT !.seen_players = MapPut(s1.seen_players, join_key, event_time)],
                join_key, t)

handle_player_join(s, name, user_id, raw_line, placeholder, t, running) ==
    IF ~running THEN s
    ELSE
    LET s0 == IF ~s.ready THEN ensure_session_ready(s, SourceFallback, t) ELSE s
        event_time == t
        s1 == [s0 EXCEPT !.session_last_join_at = Some(event_time),
                         !.session_last_join_raw = Some(raw_line)]
        cleaned_name == normalize_join_name(name)
        original_name == cleaned_name
        cleaned_placeholder == normalize_join_name(placeholder)
        cleaned_user == Strip(user_id)
        user_key == Lower(cleaned_user)
        was_placeholder == is_placeholder_name(cleaned_name)
        is_fallback_session == s1.source = SourceFallback
        join_key == JoinKey(s1.session_id, cleaned_name, cleaned_user, raw_line)
    IN  IF KnownLocalUser(s1, cleaned_user)
        THEN [s1 EXCEPT !.pending_self_join = None]
        ELSE IF MatchesPendingSelf(s1, original_name, cleaned_placeholder, event_time)
        THEN [s1 EXCEPT !.local_user_id =
                            IF user_key # << >> /\ s1.local_user_id = << >>
                            THEN user_key ELSE @,
                        !.pending_self_join = None]
        ELSE IF was_placeholder /\ user_key # << >>
                /\ is_fallback_session /\ s1.local_user_id = << >>
        THEN [s1 EXCEPT !.local_user_id = user_key, !.pending_self_join = None]
        ELSE IF was_placeholder /\ user_key # << >>
                /\ s1.local_user_id # << >> /\ s1.local_user_id = user_key
        THEN [s1 EXCEPT !.pending_self_join = None]
        ELSE IF AlreadySeen(s1, join_key)
        THEN s1
        ELSE notify_all(
                [s1 EXCEPT !.seen_players = MapPut(s1.seen_players, join_key, event_time)],
                join_key, t)

LeftUserKey_NoLower(cleaned_user) == cleaned_user

\* 1030: user_key = cleaned_user.lower() if cleaned_user else ""
LeftUserKey(cleaned_user) == Lower(cleaned_user)

handle_player_left(s, name, user_id, raw_line) ==
    LET cleaned_name == normalize_join_name(name)
        cleaned_user == Strip(user_id)
        user_key == LeftUserKey(cleaned_user)
        is_placeholder == is_placeholder_name(cleaned_name)
        s1 == IF is_placeholder /\ user_key # << >> /\ s.local_user_id = << >>
              THEN [s EXCEPT !.local_user_id = user_key] ELSE s
        prefix == JoinPrefix \o IntToStr(s.session_id) \o <<":">> \o user_key
        keys_to_remove ==
            IF user_key # << >>
            THEN {key \in DOMAIN s.seen_players : StartsWith(key, prefix)}
            ELSE {}
    IN  [s1 EXCEPT !.seen_players = MapDrop(s.seen_players, keys_to_remove)]

----------------------------------------------------------------------------
(* Searching text, as str.find, the "in" test and the regular expressions  *)
(* of the log reader do                                                    *)

CharSet(seq) == {seq[i] : i \in DOMAIN seq}
\* \w
WordChars == CharSet(UpperChars) \cup CharSet(LowerChars) \cup CharSet(DigitChars) \cup {"_"}
\* [0-9a-f\-] under (?i), on lower-cased characters
HexDashChars == CharSet(DigitChars) \cup {"a", "b", "c", "d", "e", "f", "-"}

\* s[n:]
Drop(s, n) == SubSeq(s, n + 1, Len(s))

\* p occurs in s at index i
OccursAt(s, p, i) ==
    i >= 1 /\ i + Len(p) - 1 <= Len(s) /\ SubSeq(s, i, i + Len(p) - 1) = p

MinOf(S) == CHOOSE i \in S : \A j \in S : i <= j

\* s.find(p) + 1: the first index where p occurs, 0 when it does not
Find(s, p) ==
    LET hits == {i \in 1..Len(s) : OccursAt(s, p, i)}
    IN  IF hits = {} THEN 0 ELSE MinOf(hits)

\* p in s
Contains(s, p) == Find(s, p) # 0

\* the longest prefix of s made of characters of cs
RECURSIVE SpanIn(_, _)
SpanIn(s, cs) ==
    IF s # << >> /\ Head(s) \in cs
    THEN <<Head(s)>> \o SpanIn(Tail(s), cs) ELSE << >>

\* the longest prefix of s made of characters outside cs
RECURSIVE SpanNotIn(_, _)
SpanNotIn(s, cs) ==
    IF s # << >> /\ Head(s) \notin cs
    THEN <<Head(s)>> \o SpanNotIn(Tail(s), cs) ELSE << >>

\* \b at the left of index i of s
BoundaryBefore(s, i) ==
    (i >= 1 /\ i <= Len(s) /\ s[i] \in WordChars)
        # (i >= 2 /\ i - 1 <= Len(s) /\ s[i - 1] \in WordChars)

\* (?i)key\s*[:=]\s*([^excl]+) matched at index i of s: the group, as
\* Some(text), or None.  wordStart asks for \b in front of the key.  When
\* nothing but white space follows the separator up to an excluded
\* character, the last white space is given back to the group.
KeyValueAt(s, key, i, wordStart, excl) ==
    LET p == i + Len(key)
        ws1 == SpanIn(Drop(s, p - 1), WhiteSpace)
        q == p + Len(ws1)
        rest == Drop(s, q)
        ws2 == SpanIn(rest, WhiteSpace)
        group == SpanNotIn(Drop(rest, Len(ws2)), excl)
    IN  IF ~OccursAt(Lower(s), key, i) \/ (wordStart /\ ~BoundaryBefore(s, i))
           \/ q > Len(s) \/ s[q] \notin {":", "="}
        THEN None
        ELSE IF group # << >> THEN Some(group)
        ELSE IF ws2 # << >> /\ ws2[Len(ws2)] \notin excl
             THEN Some(<<ws2[Len(ws2)]>>)
        ELSE None

\* re.search of that pattern: the group of the leftmost match, or None
KeyValue(s, key, wordStart, excl) ==
    LET hits == {i \in 1..Len(s) : KeyValueAt(s, key, i, wordStart, excl) # None}
    IN  IF hits = {} THEN None
        ELSE KeyValueAt(s, key, MinOf(hits), wordStart, excl)

\* re.sub(open [^close]* close, "", s) under (?i): every bracketed part
\* that starts with open and ends at the next close is removed
RECURSIVE RemoveBracketed(_, _, _)
RemoveBracketed(s, open, close) ==
    IF s = << >> THEN << >>
    ELSE LET body == SpanNotIn(Drop(s, Len(open)), {close})
             end == Len(open) + Len(body) + 1
         IN  IF OccursAt(Lower(s), open, 1) /\ end <= Len(s)
             THEN RemoveBracketed(Drop(s, end), open, close)
             ELSE <<Head(s)>> \o RemoveBracketed(Tail(s), open, close)

\* re.sub(re.escape(lit), "", s, flags=re.IGNORECASE)
RECURSIVE RemoveAll(_, _)
RemoveAll(s, lit) ==
    IF s = << >> \/ lit = << >> THEN s
    ELSE IF OccursAt(Lower(s), Lower(lit), 1)
         THEN RemoveAll(Drop(s, Len(lit)), lit)
         ELSE <<Head(s)>> \o RemoveAll(Tail(s), lit)

----------------------------------------------------------------------------
(* parse_player_event_line (267-331)                                       *)

\* while after and after[0] in ":|-": after = after[1:].lstrip()
RECURSIVE SkipSeparators(_)
SkipSeparators(s) ==
    IF s # << >> /\ Head(s) \in DashColonPipe
    THEN SkipSeparators(LStripChars(Tail(s), WhiteSpace)) ELSE s

SplitKeywords == {<<"d","i","s","p","l","a","y","n","a","m","e">>, <<"n","a","m","e">>, <<"u","s","e","r","i","d">>}

\* \b(displayName|name|userId)\b matches at index i of s
KeywordAt(s, i) ==
    \E kw \in SplitKeywords :
        /\ OccursAt(Lower(s), kw, i)
        /\ BoundaryBefore(s, i)
        /\ BoundaryBefore(s, i + Len(kw))

\* re.split(r"(?i)\b(displayName|name|userId)\b", after, maxsplit=1)[0]
BeforeKeyword(s) ==
    LET hits == {i \in 1..Len(s) : KeywordAt(s, i)}
    IN  IF hits = {} THEN s ELSE SubSeq(s, 1, MinOf(hits) - 1)

\* (?i)\(usr_[^\)\s]+\) matched at index i of s: the match, or None
ParenUserAt(s, i) ==
    LET body == SpanNotIn(Drop(s, i + 4), {")"} \cup WhiteSpace)
        end == i + 5 + Len(body)
    IN  IF OccursAt(Lower(s), <<"(","u","s","r","_">>, i) /\ body # << >>
           /\ end <= Len(s) /\ s[end] = ")"
        THEN Some(SubSeq(s, i, end)) ELSE None

\* match.group(0).strip("() ") of the leftmost match, or None
ParenUser(s) ==
    LET hits == {i \in 1..Len(s) : ParenUserAt(s, i) # None}
    IN  IF hits = {} THEN None
        ELSE Some(StripChars(ParenUserAt(s, MinOf(hits))[1], {"(", ")", " "}))

\* (?i)userId\s*[:=]\s*(usr_[0-9a-f\-]+): the group of the leftmost match
KeyedUserAt(s, i) ==
    LET v == KeyValueAt(s, <<"u","s","e","r","i","d">>, i, FALSE, {})
        hex == IF v = None THEN << >>
               ELSE SpanIn(Lower(Drop(v[1], 4)), HexDashChars)
    IN  IF v # None /\ OccursAt(Lower(v[1]), <<"u","s","r","_">>, 1) /\ hex # << >>
        THEN Some(SubSeq(v[1], 1, 4 + Len(hex))) ELSE None

KeyedUser(s) ==
    LET hits == {i \in 1..Len(s) : KeyedUserAt(s, i) # None}
    IN  IF hits = {} THEN None ELSE KeyedUserAt(s, MinOf(hits))

\* the name left when the identifiers and bracketed parts are removed
\* (310-319)
NameFromRest(after, user_id) ==
    LET t1 == IF user_id # << >>
              THEN RemoveAll(after, <<"(">> \o user_id \o <<")">>) ELSE after
        t2 == RemoveBracketed(t1, <<"(","u","s","r","_">>, ")")
        t3 == RemoveBracketed(t2, <<"(","u","s","e","r","i","d">>, ")")
        t4 == RemoveBracketed(t3, <<"[">>, "]")
        t5 == RemoveBracketed(t4, <<"{">>, "}")
        t6 == RemoveBracketed(t5, <<"<">>, ">")
    IN  normalize_join_fragment(ReplaceDoublePipe(t6))

\* re.search(r"(?i)displayName\s*[:=]\s*([^,\]\)]+)", after): group 1
DisplayNameGroup(after) ==
    KeyValue(after, <<"d","i","s","p","l","a","y","n","a","m","e">>, FALSE, {",", "]", ")"})

\* a if a else b
OrElse(a, b) == IF a # << >> THEN a ELSE b

\* the text of an optional match, empty without a match
OptText(o) == IF o = None THEN << >> ELSE o[1]

\* normalize_join_fragment(match.group(1)) if match (293-294, 298-299)
GroupText(m) == IF m # None THEN normalize_join_fragment(m[1]) ELSE << >>

\* the placeholder found in front of the keywords (280-289)
PlaceholderOf(after, candidate) ==
    IF after # << >> /\ is_placeholder_name(candidate) THEN candidate
    ELSE << >>

\* the user id in parentheses, else the keyed one (301-308)
UserIdOf(after) == OrElse(OptText(ParenUser(after)), OptText(KeyedUser(after)))

\* the name given with a displayName key, else with a name key (291-299)
KeyedName(after) ==
    OrElse(GroupText(DisplayNameGroup(after)),
           GroupText(KeyValue(after, <<"n","a","m","e">>, TRUE, {",", "]", ")"})))

\* the result for the text after the event token (310-331)
PlayerFields(line, after, keyed_name, user_id) ==
    [name |-> OrElse(OrElse(keyed_name, NameFromRest(after, user_id)), user_id),
     user_id |-> user_id,
     placeholder |->
        PlaceholderOf(after,
            normalize_join_fragment(
                SpanNotIn(BeforeKeyword(after), {"(", "[", "{", "<"}))),
     raw_line |-> Strip(ReplaceDoublePipe(strip_zero_width(line)))]

\* the text after the event token, without leading separators (275-278)
AfterToken(line, index, needle) ==
    SkipSeparators(Strip(strip_zero_width(Drop(line, index + Len(needle) - 1))))

parse_player_event_line(line, event_token) ==
    LET needle == Lower(event_token)
        index == Find(Lower(line), needle)
    IN  IF line = << >> \/ index = 0 THEN None
        ELSE CHOOSE result \in
                {Some(PlayerFields(line, after, KeyedName(after), UserIdOf(after))) :
                    after \in {AfterToken(line, index, needle)}} : TRUE

----------------------------------------------------------------------------
(* parse_room_transition_line (334-389)                                    *)

RoomIndicators ==
    { <<"j","o","i","n","i","n","g"," ","o","r"," ","c","r","e","a","t","i","n","g"," ","r","o","o","m">>,
      <<"e","n","t","e","r","i","n","g"," ","r","o","o","m">>,
      <<"j","o","i","n","i","n","g"," ","r","o","o","m">>,
      <<"c","r","e","a","t","i","n","g"," ","r","o","o","m">>,
      <<"c","r","e","a","t","e","d"," ","r","o","o","m">>,
      <<"r","e","j","o","i","n","i","n","g"," ","r","o","o","m">>,
      <<"r","e","-","j","o","i","n","i","n","g"," ","r","o","o","m">>,
      <<"r","e","e","n","t","e","r","i","n","g"," ","r","o","o","m">>,
      <<"r","e","-","e","n","t","e","r","i","n","g"," ","r","o","o","m">>,
      <<"j","o","i","n","i","n","g"," ","i","n","s","t","a","n","c","e">>,
      <<"c","r","e","a","t","i","n","g"," ","i","n","s","t","a","n","c","e">>,
      <<"e","n","t","e","r","i","n","g"," ","i","n","s","t","a","n","c","e">> }

\* "RUUMU" and "INSUTANSU" stand for the katakana words for room and
\* instance, the terms for the five Japanese verbs of 358-359
JpKeys == {<<"RUUMU">>, <<"INSUTANSU">>}
JpTerms == {<<"SANKA">>, <<"SAKUSEI">>, <<"NYUUSHITSU">>, <<"IDOU">>, <<"NYUUJOU">>}

\* re.search(r"(?i)wrld_[0-9a-f\-]+", clean): index of the match, 0 if none
WorldAt(clean) ==
    LET hits == {i \in 1..Len(clean) :
                    /\ OccursAt(Lower(clean), <<"w","r","l","d","_">>, i)
                    /\ SpanIn(Lower(Drop(clean, i + 4)), HexDashChars) # << >>}
    IN  IF hits = {} THEN 0 ELSE MinOf(hits)

\* the result for the cleaned line, w being the index of the world id
RoomTransition(line, clean, w) ==
    LET lower == Lower(clean)
        hasJp == \E k \in JpKeys : Contains(clean, k)
        matched ==
            \/ \E ind \in RoomIndicators : Contains(lower, ind)
            \/ hasJp /\ \E t \in JpTerms : Contains(clean, t)
            \/ /\ w # 0
               /\ \/ Contains(lower, <<"r","o","o","m">>)
                  \/ Contains(lower, <<"i","n","s","t","a","n","c","e">>)
                  \/ hasJp
        world_id ==
            IF w = 0 THEN << >>
            ELSE SubSeq(clean, w, w + 4 + Len(SpanIn(Lower(Drop(clean, w + 4)),
                                                     HexDashChars)))
        after_world ==
            IF w = 0 THEN << >>
            ELSE LStripChars(Drop(clean, w + Len(world_id) - 1),
                             {":", " ", "\t", "-"})
        instance_id ==
            OrElse(SpanNotIn(after_world, WhiteSpace \cup {","}),
                   OptText(KeyValue(clean, <<"i","n","s","t","a","n","c","e">>,
                                    FALSE, WhiteSpace \cup {","})))
    IN  IF line = << >> \/ clean = << >> \/ ~matched THEN None
        ELSE Some([world |-> world_id, instance |-> instance_id,
                   raw_line |-> clean])

parse_room_transition_line(line) ==
    CHOOSE result \in
        {RoomTransition(line, clean, WorldAt(clean)) :
            clean \in {Strip(strip_zero_width(line))}} : TRUE

----------------------------------------------------------------------------
(* LogMonitor._process_line (1138-1170)                                    *)

\* (?i)\[Behaviour\].*token\b finds a match in s
BehaviourThen(s, token) ==
    \E i, j \in 1..Len(s) :
        /\ OccursAt(Lower(s), <<"[","b","e","h","a","v","i","o","u","r","]">>, i)
        /\ j >= i + Len(<<"[","b","e","h","a","v","i","o","u","r","]">>)
        /\ OccursAt(Lower(s), Lower(token), j)
        /\ BoundaryBefore(s, j + Len(token))
        /\ \A k \in i..j : s[k] # "\n"

T_OnJoinedRoom == <<"O","n","J","o","i","n","e","d","R","o","o","m">>
T_OnPlayerLeft == <<"O","n","P","l","a","y","e","r","L","e","f","t">>
T_OnPlayerJoined == <<"O","n","P","l","a","y","e","r","J","o","i","n","e","d">>

\* what is put on the queue when parse_player_event_line returns None
UnparsedPlayer(safe_line) ==
    [name |-> << >>, user_id |-> << >>, placeholder |-> << >>,
     raw_line |-> safe_line]

\* data = parsed or the default dict
ParsedOrDefault(parsed, safe_line) ==
    IF parsed # None THEN parsed[1] ELSE UnparsedPlayer(safe_line)

PlayerEvent(type, safe_line, token) ==
    << [type |-> type,
        data |-> ParsedOrDefault(parse_player_event_line(safe_line, token),
                                 safe_line)] >>

ClassifyLine_SelfFirst(line, safe_line, room_event) ==
    IF line = << >> THEN << >>
    ELSE IF Contains(Lower(safe_line), <<"o","n","l","e","f","t","r","o","o","m">>)
    THEN << [type |-> "room_left", data |-> safe_line] >>
    ELSE IF BehaviourThen(safe_line, T_OnJoinedRoom)
    THEN << [type |-> "self_join", data |-> safe_line] >>
    ELSE IF room_event # None
    THEN << [type |-> "room_enter", data |-> room_event[1]] >>
    ELSE IF BehaviourThen(safe_line, T_OnPlayerLeft)
    THEN PlayerEvent("player_left", safe_line, T_OnPlayerLeft)
    ELSE IF BehaviourThen(safe_line, T_OnPlayerJoined)
    THEN PlayerEvent("player_join", safe_line, T_OnPlayerJoined)
    ELSE << >>

\* the chain of tests of _process_line (1143-1170) on the cleaned line,
\* room_event being what parse_room_transition_line gives for it
ClassifyLine(line, safe_line, room_event) ==
    IF line = << >> THEN << >>
    ELSE IF Contains(Lower(safe_line), <<"o","n","l","e","f","t","r","o","o","m">>)
    THEN << [type |-> "room_left", data |-> safe_line] >>
    ELSE IF room_event # None
    THEN << [type |-> "room_enter", data |-> room_event[1]] >>
    ELSE IF BehaviourThen(safe_line, T_OnJoinedRoom)
    THEN << [type |-> "self_join", data |-> safe_line] >>
    ELSE IF BehaviourThen(safe_line, T_OnPlayerLeft)
    THEN PlayerEvent("player_left", safe_line, T_OnPlayerLeft)
    ELSE IF BehaviourThen(safe_line, T_OnPlayerJoined)
    THEN PlayerEvent("player_join", safe_line, T_OnPlayerJoined)
    ELSE << >>

\* the events _process_line puts on the queue for one line
process_line(line) ==
    CHOOSE events \in
        {ClassifyLine(line, safe_line, parse_room_transition_line(safe_line)) :
            safe_line \in {ReplaceDoublePipe(strip_zero_width(line))}} : TRUE

----------------------------------------------------------------------------
(* Events of the model: what LogMonitor._process_line enqueues for a few   *)
(* log lines (the fields are parse_player_event_line's result for them).   *)

T_Alice == <<"A","l","i","c","e">>
T_Player == <<"P","l","a","y","e","r">>
T_Bob == <<"B","o","b">>
T_Carol == <<"C","a","r","o","l">>
T_usr_1 == <<"u","s","r","_","1">>
T_Usr_1 == <<"U","s","r","_","1">>
T_usr_12 == <<"u","s","r","_","1","2">>

JoinEvents ==
    { [id |-> "JA", name |-> T_Alice, user_id |-> T_Usr_1, placeholder |-> << >>,
       raw_line |-> "[Behaviour] OnPlayerJoined Alice (Usr_1)"],
      [id |-> "JP", name |-> T_Player, user_id |-> T_usr_1, placeholder |-> T_Player,
       raw_line |-> "[Behaviour] OnPlayerJoined Player (usr_1)"],
      [id |-> "JB", name |-> T_Bob, user_id |-> << >>, placeholder |-> << >>,
       raw_line |-> "[Behaviour] OnPlayerJoined Bob"],
      [id |-> "JC", name |-> T_Carol, user_id |-> T_usr_12, placeholder |-> << >>,
       raw_line |-> "[Behaviour] OnPlayerJoined Carol (usr_12)"] }

LeftEvents ==
    { [id |-> "LA", name |-> T_Alice, user_id |-> T_Usr_1,
       raw_line |-> "[Behaviour] OnPlayerLeft Alice (Usr_1)"],
      [id |-> "LP", name |-> T_Player, user_id |-> T_usr_1,
       raw_line |-> "[Behaviour] OnPlayerLeft Player (usr_1)"] }

SelfEvents ==
    { [id |-> "S0", raw_line |-> "[Behaviour] OnJoinedRoom",
       parsed |-> Some([name |-> << >>, user_id |-> << >>, placeholder |-> << >>])],
      [id |-> "S1", raw_line |-> "[Behaviour] OnJoinedRoom Player (usr_12)",
       parsed |-> Some([name |-> T_Player, user_id |-> T_usr_12,
                        placeholder |-> T_Player])] }

RoomEvents ==
    { [id |-> "R1", world |-> "wrld_abcd1234-ef00", instance |-> "1",
       raw_line |-> "wrld_abcd1234-ef00 creating instance 1"] }

LogPaths == {"output_log_2024-01-01_12-00-00.txt"}

\* Seconds between one event and the next, in the wide and in the timed
\* exploration
CoarseDelays == {0, 30}
FineDelays == {0, 2, 3, 4, 5, 9, 10, 11, 29, 30}

----------------------------------------------------------------------------
(* Construction of the monitor thread and of the controller *)

\* LogMonitor.__init__ next to a log directory holding the files fl
LogMonitor_init(dir, fl) ==
    /\ dirOk = dir
    /\ files = fl
    /\ mtime = [f \in DOMAIN fl |-> 0]
    /\ fsClock = 0
    /\ truncated = {}
    /\ pc = "run"
    /\ normalized = None
    /\ last_size = 0
    /\ handle = None
    /\ position = 0
    /\ stop = FALSE
    /\ nErrors = 0
    /\ entrySize = None
    /\ opens = 0
    /\ processed = << >>
    /\ appended = {}
    /\ queue = << >>
    /\ tailStep = "init"

\* no log directory yet
InitNoDirectory == LogMonitor_init(FALSE, EmptyMap)

\* AppController.__init__: self.monitor = None
\* the directories the settings form can name
LogDirs == {"dirA", "dirB"}
\* the directory of the loaded settings (153)
LoadedLogDir == "dirA"

InitController ==
    /\ monitors = << >>
    /\ monitor = None
    /\ ctl_pc = "idle"
    /\ nStarts = 0
    /\ vrchat_log_dir = LoadedLogDir
    /\ log_dir_var = LoadedLogDir
    /\ snapshot = << >>

----------------------------------------------------------------------------
(* The tracker driven by AppController._handle_event (1472-1522), one      *)
(* action per event type.  d is the time since the previous event, so      *)
(* now + d is what datetime.utcnow() returns in the handler; running is    *)
(* what is_vrchat_running() answers.                                       *)

Store(r, ev, d) ==
    /\ r.session_id <= MaxSession
    /\ session_id' = r.session_id
    /\ ready' = r.ready
    /\ source' = r.source
    /\ seen_players' = r.seen_players
    /\ pending_room' = r.pending_room
    /\ session_started_at' = r.session_started_at
    /\ session_last_join_at' = r.session_last_join_at
    /\ session_last_join_raw' = r.session_last_join_raw
    /\ last_notified' = r.last_notified
    /\ local_user_id' = r.local_user_id
    /\ pending_self_join' = r.pending_self_join
    /\ sent' = r.sent
    /\ lastEv' = ev
    /\ repeated' = (ev = lastEv)
    /\ lastSent' = [k \in DOMAIN lastSent \cup {r.sent[i].key : i \in DOMAIN r.sent} |->
                       IF \E i \in DOMAIN r.sent : r.sent[i].key = k
                       THEN now + d ELSE lastSent[k]]
    /\ nEvents' = nEvents + 1
    /\ prevRoom' = pending_room
    /\ UNCHANGED <<fn_arg, fn_result>>
    /\ now' = now + d

Commit(result, ev, d) ==
    /\ nEvents < MaxEvents
    /\ nEvents = 0 => d = 0          \* the clock starts at the first event
    /\ \E r \in {result} : Store(r, ev, d)
    /\ UNCHANGED <<tailVars, ctlVars>>

Ev(op, id, running) == [op |-> op, id |-> id, running |-> running]

LogSwitch(path, d) ==
    Commit(handle_log_switch(Tracker, path), Ev("log_switch", path, TRUE), d)

RoomEnter(e, d) ==
    Commit(handle_room_enter(Tracker, e.world, e.instance, e.raw_line),
           Ev("room_enter", e.id, TRUE), d)

RoomLeft(d) ==
    Commit(handle_room_left(Tracker), Ev("room_left", "", TRUE), d)

SelfJoin(e, running, d) ==
    Commit(handle_self_join(Tracker, e.raw_line, e.parsed, now + d, running),
           Ev("self_join", e.id, running), d)

PlayerJoin(e, running, d) ==
    Commit(handle_player_join(Tracker, e.name, e.user_id, e.raw_line,
                              e.placeholder, now + d, running),
           Ev("player_join", e.id, running), d)

\* handle_player_left does not call is_vrchat_running(); running is what the
\* call would answer at that time
PlayerLeft(e, running, d) ==
    Commit(handle_player_left(Tracker, e.name, e.user_id, e.raw_line),
           Ev("player_left", e.id, running), d)

InitSession ==
    /\ session_id = SessionTracker_init.session_id
    /\ ready = SessionTracker_init.ready
    /\ source = SessionTracker_init.source
    /\ seen_players = SessionTracker_init.seen_players
    /\ pending_room = SessionTracker_init.pending_room
    /\ session_started_at = SessionTracker_init.session_started_at
    /\ session_last_join_at = SessionTracker_init.session_last_join_at
    /\ session_last_join_raw = SessionTracker_init.session_last_join_raw
    /\ last_notified = SessionTracker_init.last_notified
    /\ local_user_id = SessionTracker_init.local_user_id
    /\ pending_self_join = SessionTracker_init.pending_self_join
    /\ now = 0
    /\ sent = << >>
    /\ lastEv = Ev("none", "", TRUE)
    /\ repeated = FALSE
    /\ lastSent = EmptyMap
    /\ nEvents = 0
    /\ prevRoom = None

\* the tracker after construction, no text function being looked at
InitTracker ==
    /\ InitSession
    /\ fn_arg = None
    /\ fn_result = None

\* the application before monitoring is started
InitApp == InitTracker /\ InitNoDirectory /\ InitController

\* Every event of the model, at coarse times
NextTracker ==
    \/ \E p \in LogPaths, d \in CoarseDelays : LogSwitch(p, d)
    \/ \E e \in RoomEvents, d \in CoarseDelays : RoomEnter(e, d)
    \/ \E d \in CoarseDelays : RoomLeft(d)
    \/ \E e \in SelfEvents, running \in BOOLEAN, d \in CoarseDelays :
          SelfJoin(e, running, d)
    \/ \E e \in JoinEvents, running \in BOOLEAN, d \in CoarseDelays :
          PlayerJoin(e, running, d)
    \/ \E e \in LeftEvents, running \in BOOLEAN, d \in CoarseDelays :
          PlayerLeft(e, running, d)

SpecTracker == InitApp /\ [][NextTracker]_vars

\* One player, one room and the plain self join, at fine times
TimedJoins == {e \in JoinEvents : e.id = "JA"}
TimedLefts == {e \in LeftEvents : e.id = "LA"}
TimedSelfs == {e \in SelfEvents : e.id = "S0"}

NextTimed ==
    \/ \E e \in RoomEvents, d \in FineDelays : RoomEnter(e, d)
    \/ \E e \in TimedSelfs, d \in FineDelays : SelfJoin(e, TRUE, d)
    \/ \E e \in TimedJoins, d \in FineDelays : PlayerJoin(e, TRUE, d)
    \/ \E e \in TimedLefts, d \in FineDelays : PlayerLeft(e, TRUE, d)

SpecTimed == InitApp /\ [][NextTimed]_vars

\* A self join followed by joins carrying or lacking the placeholder, at
\* delays around the pending-self window
PendingDelays == {0, 9, 10, 11}
PendingJoins == {e \in JoinEvents : e.id \in {"JA", "JP"}}

NextPending ==
    \/ \E e \in SelfEvents, d \in PendingDelays : SelfJoin(e, TRUE, d)
    \/ \E e \in PendingJoins, d \in PendingDelays : PlayerJoin(e, TRUE, d)

SpecPending == InitApp /\ [][NextPending]_vars

\* Joins that share a user id under two names, share a name under two user
\* ids, or carry no user id on two different lines
T_Alicia == <<"A","l","i","c","i","a">>

DedupJoins ==
    { [id |-> "JA", name |-> T_Alice, user_id |-> T_Usr_1, placeholder |-> << >>,
       raw_line |-> "[Behaviour] OnPlayerJoined Alice (Usr_1)"],
      [id |-> "JD", name |-> T_Alicia, user_id |-> T_usr_1, placeholder |-> << >>,
       raw_line |-> "[Behaviour] OnPlayerJoined Alicia (usr_1)"],
      [id |-> "JE", name |-> T_Alice, user_id |-> T_usr_12, placeholder |-> << >>,
       raw_line |-> "[Behaviour] OnPlayerJoined Alice (usr_12)"],
      [id |-> "JB", name |-> T_Bob, user_id |-> << >>, placeholder |-> << >>,
       raw_line |-> "[Behaviour] OnPlayerJoined Bob"],
      [id |-> "JF", name |-> T_Bob, user_id |-> << >>, placeholder |-> << >>,
       raw_line |-> "2024.01.01 12:00:05 [Behaviour] OnPlayerJoined Bob"] }

NextDedup ==
    \/ \E d \in CoarseDelays : RoomLeft(d)
    \/ \E e \in DedupJoins, d \in CoarseDelays : PlayerJoin(e, TRUE, d)

SpecDedup == InitApp /\ [][NextDedup]_vars

\* Joins that are announced, repeated, or dropped as the local player's,
\* with the game running or not, at delays around the continuation gap
GapDelays == {0, 3, 6}
GapJoins == {e \in JoinEvents : e.id \in {"JA", "JP"}}

NextLastJoin ==
    \/ \E d \in GapDelays : RoomLeft(d)
    \/ \E e \in TimedSelfs, running \in BOOLEAN, d \in GapDelays :
          SelfJoin(e, running, d)
    \/ \E e \in GapJoins, running \in BOOLEAN, d \in GapDelays :
          PlayerJoin(e, running, d)

SpecLastJoin == InitApp /\ [][NextLastJoin]_vars

\* notify_all called directly, for two keys, at fine times
NotifyKeys ==
    { [id |-> "K1", key |-> JoinPrefix \o <<"1", ":">> \o T_usr_1],
      [id |-> "K2", key |-> SelfPrefix \o <<"1">>] }

NotifyAll(k, d) ==
    Commit(notify_all(Tracker, k.key, now + d), Ev("notify_all", k.id, TRUE), d)

NextNotify == \E k \in NotifyKeys, d \in FineDelays : NotifyAll(k, d)

SpecNotify == InitApp /\ [][NextNotify]_vars

\* notify_all called directly in streams of calls 0, 4, 6 or 10 seconds
\* apart
StreamDelays == {0, 4, 6, 10}

NextStream == \E k \in NotifyKeys, d \in StreamDelays : NotifyAll(k, d)

SpecStream == InitApp /\ [][NextStream]_vars

\* notify_all called directly while the sinks' deliveries fail or not
NotifySinks(k, d, nfails, pfails) ==
    Commit(notify_all_sinks(Tracker, k.key, now + d, nfails, pfails),
           [op |-> "notify_sinks", id |-> k.id, running |-> TRUE,
            nfails |-> nfails, pfails |-> pfails], d)

NextSinks ==
    \E k \in NotifyKeys, d \in FineDelays, nfails \in BOOLEAN, pfails \in BOOLEAN :
        NotifySinks(k, d, nfails, pfails)

SpecSinks == InitApp /\ [][NextSinks]_vars

----------------------------------------------------------------------------
(* The text functions of the log reader applied to one line: the line is   *)
(* drawn when the state machine starts, and one step applies the function. *)

\* everything but fn_result
fnFrame == <<session_id, ready, source, seen_players, pending_room,
             session_started_at, session_last_join_at, session_last_join_raw,
             last_notified, local_user_id, pending_self_join, now, sent,
             lastEv, repeated, lastSent, nEvents, prevRoom, fn_arg,
             tailVars, ctlVars>>

\* Lines put together from the markers the classification looks for, in
\* this order: the [Behaviour] tag, the left-room keyword, a room
\* transition, and the self-join, player-left and player-join tokens
Markers == {"B", "L", "R", "S", "PL", "PJ"}

MarkerText(m) ==
    CASE m = "B" -> <<"[","B","e","h","a","v","i","o","u","r","]"," ">>
      [] m = "L" -> <<"O","n","L","e","f","t","R","o","o","m"," ">>
      [] m = "R" -> <<"E","n","t","e","r","i","n","g"," ","R","o","o","m",":"," ","w","r","l","d","_","1","a",":","7"," ">>
      [] m = "S" -> <<"O","n","J","o","i","n","e","d","R","o","o","m"," ">>
      [] m = "PL" -> <<"O","n","P","l","a","y","e","r","L","e","f","t"," ","B","o","b"," ">>
      [] m = "PJ" -> <<"O","n","P","l","a","y","e","r","J","o","i","n","e","d"," ","B","o","b"," ","(","u","s","r","_","1",")">>

LineOf(F) ==
    LET part(m) == IF m \in F THEN MarkerText(m) ELSE << >>
    IN  part("B") \o part("L") \o part("R") \o part("S") \o part("PL")
        \o part("PJ")

\* _follow_file passes line.rstrip() (1115)
ClassifyLines ==
    {[frags |-> F, text |-> RStripChars(LineOf(F), WhiteSpace)] :
        F \in SUBSET Markers}

InitClassify ==
    /\ InitSession
    /\ InitNoDirectory
    /\ InitController
    /\ fn_arg \in {Some(l) : l \in ClassifyLines}
    /\ fn_result = None

ProcessLine ==
    /\ fn_arg # None
    /\ fn_result = None
    /\ fn_result' = Some(process_line(fn_arg[1].text))
    /\ UNCHANGED fnFrame

SpecClassify == InitClassify /\ [][ProcessLine]_vars

\* Join lines put together from a key in front of the name, a name, and a
\* way of giving the user id
LineKeys == {<< >>, <<"d","i","s","p","l","a","y","N","a","m","e",":"," ">>, <<"d","i","s","p","l","a","y","N","a","m","e","=">>, <<"n","a","m","e",":"," ">>}
LineNames == {<< >>, T_Alice, T_Player, <<"B","o","b"," ","[","x","]">>}
LineUsers == {<< >>, <<" ","(","u","s","r","_","1","2","3","4",")">>, <<","," ","u","s","e","r","I","d",":"," ","u","s","r","_","1","2","a","b">>, <<" ","(","U","S","R","_","9",")">>}

JoinLineHead == <<"[","B","e","h","a","v","i","o","u","r","]"," ","O","n","P","l","a","y","e","r","J","o","i","n","e","d"," ">>

ParseLines ==
    {[key |-> k, name |-> n, user |-> u,
      text |-> RStripChars(JoinLineHead \o k \o n \o u, WhiteSpace)] :
        k \in LineKeys, n \in LineNames, u \in LineUsers}

InitParse ==
    /\ InitSession
    /\ InitNoDirectory
    /\ InitController
    /\ fn_arg \in {Some(l) : l \in ParseLines}
    /\ fn_result = None

ParsePlayerLine ==
    /\ fn_arg # None
    /\ fn_result = None
    /\ fn_result' = Some(parse_player_event_line(fn_arg[1].text, T_OnPlayerJoined))
    /\ UNCHANGED fnFrame

SpecParse == InitParse /\ [][ParsePlayerLine]_vars

----------------------------------------------------------------------------
(* The log locator applied to one directory: the directory and what it     *)
(* holds are drawn when the state machine starts, and one step applies     *)
(* get_newest_log_path to it.                                              *)

IsDigit(c) == \E i \in DOMAIN DigitChars : DigitChars[i] = c
DigitValue(c) == (CHOOSE i \in DOMAIN DigitChars : DigitChars[i] = c) - 1

\* int() of a run of digits
RECURSIVE StrToInt(_)
StrToInt(s) ==
    IF s = << >> THEN 0
    ELSE StrToInt(SubSeq(s, 1, Len(s) - 1)) * 10 + DigitValue(s[Len(s)])

Max2(a, b) == IF a >= b THEN a ELSE b

T_output_log_ == <<"o","u","t","p","u","t","_","l","o","g","_">>
T_dot_txt == <<".","t","x","t">>
T_player_log == <<"p","l","a","y","e","r",".","l","o","g">>

\* re.search of output_log_(\d{4})-(\d{2})-(\d{2})_(\d{2})-(\d{2})-(\d{2})\.txt$
\* in a base name, ignoring case: the six groups, or None
RotationMatch(name) ==
    LET n == Len(name)
        t == SubSeq(name, n - 33, n)
        digits(a, b) == \A i \in a..b : IsDigit(t[i])
    IN  IF /\ n >= 34
           /\ Lower(SubSeq(t, 1, 11)) = T_output_log_
           /\ digits(12, 15) /\ t[16] = "-"
           /\ digits(17, 18) /\ t[19] = "-"
           /\ digits(20, 21) /\ t[22] = "_"
           /\ digits(23, 24) /\ t[25] = "-"
           /\ digits(26, 27) /\ t[28] = "-"
           /\ digits(29, 30)
           /\ Lower(SubSeq(t, 31, 34)) = T_dot_txt
        THEN Some(<<StrToInt(SubSeq(t, 12, 15)), StrToInt(SubSeq(t, 17, 18)),
                    StrToInt(SubSeq(t, 20, 21)), StrToInt(SubSeq(t, 23, 24)),
                    StrToInt(SubSeq(t, 26, 27)), StrToInt(SubSeq(t, 29, 30))>>)
        ELSE None

IsLeap(y) == (y % 4 = 0 /\ y % 100 # 0) \/ y % 400 = 0

DaysInMonth(y, mo) ==
    CASE mo \in {4, 6, 9, 11} -> 30
      [] mo = 2 -> IF IsLeap(y) THEN 29 ELSE 28
      [] OTHER -> 31

\* datetime(y, mo, d, h, mi, s) raises ValueError outside these ranges
ValidDate(g) ==
    /\ g[1] \in 1..9999
    /\ g[2] \in 1..12
    /\ g[3] \in 1..DaysInMonth(g[1], g[2])
    /\ g[4] \in 0..23
    /\ g[5] \in 0..59
    /\ g[6] \in 0..59

\* days from 1970-01-01 to a date of 1970 or later
DaysFromCivil(y, mo, d) ==
    LET yy == IF mo <= 2 THEN y - 1 ELSE y
        era == yy \div 400
        yoe == yy - era * 400
        mp == IF mo > 2 THEN mo - 3 ELSE mo + 9
        doy == (153 * mp + 2) \div 5 + d - 1
        doe == yoe * 365 + yoe \div 4 - yoe \div 100 + doy
    IN  era * 146097 + doe - 719468

\* datetime.timestamp() of a naive datetime, in whole seconds, the local
\* time zone being UTC
timestamp(g) ==
    DaysFromCivil(g[1], g[2], g[3]) * 86400 + g[4] * 3600 + g[5] * 60 + g[6]

\* score_log_file without the time in the name
score_log_entry_StatOnly(e) ==
    IF e.stat = None THEN 0
    ELSE Max2(e.stat[1].st_mtime, e.stat[1].st_ctime)

\* score_log_file on a directory entry: stat is None once the file is gone
\* (os.stat raises OSError)
score_log_entry(e) ==
    IF e.stat = None THEN 0
    ELSE LET best == Max2(e.stat[1].st_mtime, e.stat[1].st_ctime)
             match == RotationMatch(e.name)
         IN  IF match # None /\ ValidDate(match[1])
             THEN Max2(best, timestamp(match[1]))
             ELSE best

\* the test on an entry of os.scandir
IsLogCandidate(e) ==
    /\ e.is_file
    /\ \/ Lower(e.name) = T_player_log
       \/ StartsWith(Lower(e.name), T_output_log_)

\* candidates.sort(key=score_log_file, reverse=True)[0]: the sort is
\* stable, so among the entries of the greatest score the first listed
FirstOfGreatestScore(candidates) ==
    candidates[CHOOSE i \in DOMAIN candidates :
        /\ \A j \in DOMAIN candidates :
              score_log_entry(candidates[j]) <= score_log_entry(candidates[i])
        /\ \A j \in 1..(i - 1) :
              score_log_entry(candidates[j]) < score_log_entry(candidates[i])]

\* get_newest_log_path on a directory d: its path, whether it is a
\* directory, whether listing it raises OSError, and its entries in the
\* order os.scandir yields them
newest_log_entry(d) ==
    IF d.log_dir = "" \/ ~d.isdir THEN None
    ELSE IF d.scan_fails THEN None
    ELSE LET candidates == SelectSeq(d.entries, IsLogCandidate)
         IN  IF candidates = << >> THEN None
             ELSE Some(FirstOfGreatestScore(candidates).name)

N_Player == <<"P","l","a","y","e","r",".","l","o","g">>
N_notes == <<"n","o","t","e","s",".","t","x","t">>
N_old == <<"o","u","t","p","u","t","_","l","o","g","_","o","l","d",".","t","x","t">>
N_1200 == <<"o","u","t","p","u","t","_","l","o","g","_","2","0","2","4","-","0","1","-","0","1","_","1","2","-","0","0","-","0","0",".","t","x","t">>
N_1210 == <<"O","U","T","P","U","T","_","L","O","G","_","2","0","2","4","-","0","1","-","0","1","_","1","2","-","1","0","-","0","0",".","T","X","T">>
N_Feb30 == <<"o","u","t","p","u","t","_","l","o","g","_","2","0","2","4","-","0","2","-","3","0","_","1","2","-","2","0","-","0","0",".","t","x","t">>
N_folder == <<"o","u","t","p","u","t","_","l","o","g","_","2","0","2","4","-","0","1","-","0","1","_","1","2","-","3","0","-","0","0",".","t","x","t">>
EntryNames == {N_Player, N_notes, N_old, N_1200, N_1210, N_Feb30, N_folder}

\* 2024-01-01 11:53:20, 12:05:00 and 12:15:00 UTC, around the times in the
\* names
StatTimes == {[st_mtime |-> 1704110000, st_ctime |-> 1704110000],
              [st_mtime |-> 1704110700, st_ctime |-> 1704110000],
              [st_mtime |-> 1704110000, st_ctime |-> 1704111300]}

DirEntries ==
    {[name |-> n, is_file |-> (n # N_folder), stat |-> st] :
        n \in EntryNames \ {N_folder}, st \in {None} \cup {Some(t) : t \in StatTimes}}
    \cup {[name |-> N_folder, is_file |-> FALSE, stat |-> Some(t)] :
            t \in {[st_mtime |-> 1704111300, st_ctime |-> 1704111300]}}

MaxEntries == 2

\* listings of at most MaxEntries entries, no name twice
EntryLists ==
    {l \in UNION {[1..k -> DirEntries] : k \in 0..MaxEntries} :
        \A i, j \in DOMAIN l : i # j => l[i].name # l[j].name}

Directories ==
    {[log_dir |-> "", isdir |-> FALSE, scan_fails |-> FALSE, entries |-> << >>],
     [log_dir |-> "dirA", isdir |-> FALSE, scan_fails |-> FALSE, entries |-> << >>]}
    \cup {[log_dir |-> "dirA", isdir |-> TRUE, scan_fails |-> f, entries |-> l] :
            f \in BOOLEAN, l \in EntryLists}

InitNewest ==
    /\ InitSession
    /\ InitNoDirectory
    /\ InitController
    /\ fn_arg \in {Some(d) : d \in Directories}
    /\ fn_result = None

GetNewestLogPath ==
    /\ fn_arg # None
    /\ fn_result = None
    /\ fn_result' = Some(newest_log_entry(fn_arg[1]))
    /\ UNCHANGED fnFrame

SpecNewest == InitNewest /\ [][GetNewestLogPath]_vars

----------------------------------------------------------------------------
(* The log directory and the game writing to it.  A file is its sequence   *)
(* of bytes; an offset is a number of bytes from the start of the file.    *)

MaxWrites == 3    \* writes made to the directory
MaxErrors == 1    \* OSErrors raised by the file system
MaxQueue == 8     \* events recorded; error events past it are not recorded

\* names accepted by get_newest_log_path (448-449)
Candidates == {"Player.log", "output_log_1.txt"}

\* the file that is in the directory when the application starts
OldFile == "Player.log"
OldLine == <<"o", "\n">>

LineChars == <<"a", "b", "c", "d", "e", "f", "g", "h">>
\* the text the game writes next
NextChar == LineChars[(fsClock % Len(LineChars)) + 1]

\* max(st_mtime, st_ctime) of an existing file.  Neither candidate name
\* carries a timestamp, so the name adds nothing to the score.
score_log_file(f) == IF f \in DOMAIN files THEN mtime[f] ELSE 0

\* What get_newest_log_path can return: None without a directory or
\* without candidates, else a candidate of maximal score (the order of
\* candidates of equal score is os.scandir's).
get_newest_log_path ==
    IF ~dirOk \/ DOMAIN files = {} THEN {None}
    ELSE {Some(f) : f \in {g \in DOMAIN files :
                            \A h \in DOMAIN files :
                                score_log_file(h) <= score_log_file(g)}}

\* the thread is inside _follow_file(f), past the size measurement
Following(f) ==
    /\ normalized = Some(f)
    /\ pc \in {"outer", "inner", "eof_wait", "size_check", "sleep", "newest",
              "except"}

AtLineStart(bytes) == bytes = << >> \/ bytes[Len(bytes)] = "\n"

threadVars == <<pc, normalized, last_size, handle, position, nErrors,
                entrySize, opens, processed, queue, tailStep>>

Written(fl, mt) ==
    /\ fsClock < MaxWrites
    /\ files' = fl
    /\ mtime' = mt
    /\ fsClock' = fsClock + 1
    /\ UNCHANGED <<stop, threadVars, trackerVars, ctlVars>>

MakeDir ==
    /\ ~dirOk
    /\ dirOk' = TRUE
    /\ Written(files, mtime)
    /\ UNCHANGED <<truncated, appended>>

CreateFile(f) ==
    /\ dirOk
    /\ f \notin DOMAIN files
    /\ Written(MapPut(files, f, << >>), MapPut(mtime, f, fsClock + 1))
    /\ UNCHANGED <<dirOk, truncated, appended>>

\* the game appends one character, with or without the end of the line
AppendBytes(f, newline) ==
    /\ f \in DOMAIN files
    /\ Written([files EXCEPT ![f] =
                   @ \o (IF newline THEN <<NextChar, "\n">> ELSE <<NextChar>>)],
               [mtime EXCEPT ![f] = fsClock + 1])
    /\ appended' =
          IF newline /\ Following(f) /\ AtLineStart(files[f])
          THEN appended \cup {[file |-> f, off |-> Len(files[f]),
                               text |-> <<NextChar>>]}
          ELSE appended
    /\ UNCHANGED <<dirOk, truncated>>

\* the game appends one complete line
AppendLine(f) == AppendBytes(f, TRUE)

TruncateFile(f) ==
    /\ f \in DOMAIN files
    /\ files[f] # << >>
    /\ Written([files EXCEPT ![f] = << >>], [mtime EXCEPT ![f] = fsClock + 1])
    /\ truncated' = truncated \cup {f}
    /\ UNCHANGED <<dirOk, appended>>

----------------------------------------------------------------------------
(* The LogMonitor thread, one action per blocking call or wait of run()    *)
(* and _follow_file().  A call that can raise OSError raises it or not     *)
(* (err), at most MaxErrors times in a run.  Status messages are not       *)
(* recorded.                                                               *)

MonitorThread ==
    [pc |-> pc, normalized |-> normalized, last_size |-> last_size,
     handle |-> handle, position |-> position, nErrors |-> nErrors,
     entrySize |-> entrySize, opens |-> opens, processed |-> processed,
     queue |-> queue]

Step(name, r) ==
    /\ pc' = r.pc
    /\ normalized' = r.normalized
    /\ last_size' = r.last_size
    /\ handle' = r.handle
    /\ position' = r.position
    /\ nErrors' = r.nErrors
    /\ entrySize' = r.entrySize
    /\ opens' = r.opens
    /\ processed' = r.processed
    /\ queue' = r.queue
    /\ tailStep' = name
    /\ UNCHANGED <<dirOk, files, mtime, fsClock, truncated, stop, appended>>
    /\ UNCHANGED <<trackerVars, ctlVars>>

Raises == IF nErrors < MaxErrors THEN BOOLEAN ELSE {FALSE}
Raised(t, err) == [t EXCEPT !.nErrors = IF err THEN @ + 1 ELSE @]

\* the stop signal is seen: every loop ends and run() returns
Stopped(t) == [t EXCEPT !.pc = "done", !.normalized = None, !.handle = None]

\* LogMonitor.stop
StopMonitor ==
    /\ ~stop
    /\ pc # "done"
    /\ stop' = TRUE
    /\ UNCHANGED <<dirOk, files, mtime, fsClock, truncated, appended,
                   threadVars, trackerVars, ctlVars>>

\* run: the loop test, the directory test and the choice of the file
RunLoop ==
    /\ pc = "run"
    /\ \E err \in Raises, newest \in get_newest_log_path :
          LET t == Raised(MonitorThread, err /\ dirOk /\ ~stop)
              found == IF err THEN None ELSE newest
          IN  Step("run",
                   IF stop THEN Stopped(t)
                   ELSE IF ~dirOk THEN [t EXCEPT !.pc = "dir_wait"]
                   ELSE IF found = None THEN [t EXCEPT !.pc = "file_wait"]
                   ELSE [t EXCEPT !.pc = "enter", !.normalized = found])

\* run: self._stop_event.wait(1.0) without a directory
DirWait ==
    /\ pc = "dir_wait"
    /\ Step("dir_wait", IF stop THEN Stopped(MonitorThread)
                        ELSE [MonitorThread EXCEPT !.pc = "run"])

\* run: self._stop_event.wait(1.0) without a candidate file
FileWait ==
    /\ pc = "file_wait"
    /\ Step("file_wait", IF stop THEN Stopped(MonitorThread)
                         ELSE [MonitorThread EXCEPT !.pc = "run"])

\* os.path.getsize(normalized), 0 on OSError
EntrySize(f, err) == IF err \/ f \notin DOMAIN files THEN 0 ELSE Len(files[f])

\* _follow_file: the log_switch event and the size measurement
FollowEnter ==
    /\ pc = "enter"
    /\ \E err \in Raises :
          LET t == Raised(MonitorThread, err)
              f == normalized[1]
          IN  Step("enter",
                   [t EXCEPT !.queue = Append(@, <<"log_switch", f>>),
                             !.last_size = EntrySize(f, err),
                             !.entrySize = IF err \/ f \notin DOMAIN files
                                           THEN None ELSE Some(Len(files[f])),
                             !.opens = 0,
                             !.pc = "outer"])

\* handle.seek(last_size) on the handle just opened
OpenSeek_Zero(size) == 0
OpenSeek(size) == size

OpenFile_Announces ==
    /\ pc = "outer"
    /\ \E err \in Raises :
          LET t == Raised(MonitorThread, err /\ ~stop)
          IN  Step("open",
                   IF stop THEN Stopped(t)
                   ELSE IF err \/ normalized[1] \notin DOMAIN files
                        THEN [t EXCEPT !.pc = "except"]
                   ELSE [t EXCEPT !.handle = Some(OpenSeek(last_size)),
                                  !.opens = @ + 1,
                                  !.queue = Append(@, <<"log_switch", normalized[1]>>),
                                  !.pc = "inner"])

\* _follow_file: the outer loop test and open()
OpenFile ==
    /\ pc = "outer"
    /\ \E err \in Raises :
          LET t == Raised(MonitorThread, err /\ ~stop)
          IN  Step("open",
                   IF stop THEN Stopped(t)
                   ELSE IF err \/ normalized[1] \notin DOMAIN files
                        THEN [t EXCEPT !.pc = "except"]
                   ELSE [t EXCEPT !.handle = Some(OpenSeek(last_size)),
                                  !.opens = @ + 1,
                                  !.pc = "inner"])

\* handle.readline() at offset pos: up to and including the next newline,
\* or up to the end of the file, or nothing at or past the end
readline(bytes, pos) ==
    LET ends == {i \in (pos + 1)..Len(bytes) : bytes[i] = "\n"}
    IN  IF pos >= Len(bytes) THEN << >>
        ELSE IF ends = {} THEN SubSeq(bytes, pos + 1, Len(bytes))
        ELSE SubSeq(bytes, pos + 1,
                    CHOOSE i \in ends : \A j \in ends : i <= j)

\* line.rstrip()
rstrip(line) == RStripChars(line, WhiteSpace)

\* last_size = handle.tell() after a line was read
TellAfterRead(size, offset) == offset

\* _follow_file: the inner loop test, tell(), readline() and _process_line
ReadLine ==
    /\ pc = "inner"
    /\ \E err \in Raises :
          LET t == Raised(MonitorThread, err /\ ~stop)
              f == normalized[1]
              pos == handle[1]
              line == readline(files[f], pos)
          IN  Step("read",
                   IF stop THEN Stopped(t)
                   ELSE IF err
                        THEN [t EXCEPT !.position = pos, !.handle = None,
                                       !.pc = "except"]
                   ELSE IF line # << >>
                        THEN [t EXCEPT
                                !.position = pos,
                                !.handle = Some(pos + Len(line)),
                                !.last_size = TellAfterRead(@, pos + Len(line)),
                                !.processed = Append(@, [file |-> f, off |-> pos,
                                                         text |-> rstrip(line)])]
                   ELSE [t EXCEPT !.position = pos, !.pc = "eof_wait"])

\* _follow_file: self._stop_event.wait(0.6) at the end of the file
EofWait ==
    /\ pc = "eof_wait"
    /\ Step("eof_wait", IF stop THEN Stopped(MonitorThread)
                        ELSE [MonitorThread EXCEPT !.pc = "size_check"])

SizeCheck_NoRewind ==
    /\ pc = "size_check"
    /\ \E err \in Raises :
          LET t == Raised(MonitorThread, err)
              current_size == Len(files[normalized[1]])
          IN  Step("size_check",
                   IF err THEN [t EXCEPT !.pc = "sleep"]
                   ELSE IF current_size < last_size
                        THEN [t EXCEPT !.last_size = current_size,
                                       !.handle = Some(current_size),
                                       !.pc = "inner"]
                   ELSE [t EXCEPT !.pc = "newest"])

\* _follow_file: os.path.getsize after the wait and the truncation test
SizeCheck ==
    /\ pc = "size_check"
    /\ \E err \in Raises :
          LET t == Raised(MonitorThread, err)
              current_size == Len(files[normalized[1]])
          IN  Step("size_check",
                   IF err THEN [t EXCEPT !.pc = "sleep"]
                   ELSE IF current_size < last_size
                        THEN [t EXCEPT !.handle = Some(0), !.last_size = 0,
                                       !.pc = "inner"]
                   ELSE [t EXCEPT !.pc = "newest"])

\* _follow_file: time.sleep(0.6) after the failed size check, then break:
\* the handle is closed and the outer loop goes on
SleepAfterSizeError ==
    /\ pc = "sleep"
    /\ Step("sleep", [MonitorThread EXCEPT !.handle = None, !.pc = "outer"])

\* _follow_file: get_newest_log_path and the return to run() or the
\* seek back to position
NewestCheck ==
    /\ pc = "newest"
    /\ \E err \in Raises, newest \in get_newest_log_path :
          LET t == Raised(MonitorThread, err)
              found == IF err THEN None ELSE newest
          IN  Step("newest",
                   IF found # None /\ found # normalized
                   THEN [t EXCEPT !.handle = None, !.normalized = None,
                                  !.pc = "run"]
                   ELSE [t EXCEPT !.handle = Some(position), !.pc = "inner"])

\* self._queue.put(("error", ...)), recorded while the record has room
PutError(q) == IF Len(q) < MaxQueue THEN Append(q, <<"error">>) ELSE q

ReadError_Returns ==
    /\ pc = "except"
    /\ LET t == [MonitorThread EXCEPT !.queue = PutError(@)]
       IN  Step("except", IF stop THEN Stopped(t)
                          ELSE [t EXCEPT !.normalized = None, !.pc = "run"])

\* _follow_file: the except clause, its error event and wait(2.0)
ReadError ==
    /\ pc = "except"
    /\ LET t == [MonitorThread EXCEPT !.queue = PutError(@)]
       IN  Step("except", IF stop THEN Stopped(t)
                          ELSE [t EXCEPT !.pc = "outer"])

\* the directory the application can find when monitoring starts
InitDirs ==
    { [dir |-> FALSE, files |-> EmptyMap],
      [dir |-> TRUE, files |-> EmptyMap],
      [dir |-> TRUE, files |-> (OldFile :> OldLine)] }

InitTail ==
    /\ InitTracker
    /\ InitController
    /\ \E d \in InitDirs : LogMonitor_init(d.dir, d.files)

ThreadNext ==
    \/ RunLoop
    \/ DirWait
    \/ FileWait
    \/ FollowEnter
    \/ OpenFile
    \/ ReadLine
    \/ EofWait
    \/ SizeCheck
    \/ SleepAfterSizeError
    \/ NewestCheck
    \/ ReadError

NextTail ==
    \/ ThreadNext
    \/ StopMonitor
    \/ MakeDir
    \/ \E f \in Candidates : CreateFile(f)
    \/ \E f \in Candidates : AppendLine(f)
    \/ \E f \in Candidates : TruncateFile(f)

SpecTail == InitTail /\ [][NextTail]_vars

\* The game writes a line in two writes: the reader can reach the end of the
\* file between them
NextPartial ==
    \/ ThreadNext
    \/ \E f \in Candidates, newline \in BOOLEAN : AppendBytes(f, newline)

SpecPartial == InitTail /\ [][NextPartial]_vars

\* The game, or the user, deletes a log file.  On Windows a file that the
\* monitor holds open cannot be deleted, so the file is one the monitor has
\* no handle on: between two opens, or not the followed one.
DeleteFile(f) ==
    /\ f \in DOMAIN files
    /\ ~(normalized = Some(f) /\ handle # None)
    /\ Written(MapDrop(files, {f}), MapDrop(mtime, {f}))
    /\ UNCHANGED <<dirOk, truncated, appended>>

NextRotate ==
    \/ ThreadNext
    \/ StopMonitor
    \/ \E f \in Candidates : CreateFile(f)
    \/ \E f \in Candidates : AppendLine(f)
    \/ \E f \in Candidates : DeleteFile(f)

\* the monitor thread is scheduled as long as it has not returned
SpecRotate == InitTail /\ [][NextRotate]_vars /\ WF_vars(ThreadNext)

----------------------------------------------------------------------------
(* AppController.start_monitoring / stop_monitoring (1393-1413) and the    *)
(* LogMonitor threads they create.  Both handlers run on the UI thread,    *)
(* one at a time; join(timeout=2.0) is where the UI thread blocks while    *)
(* the monitor thread keeps running.  A monitor thread is either at one    *)
(* of its loop tests or stop waits ("poll"), or inside a call that does    *)
(* not watch the stop signal: isdir, scandir, stat, open, readline,        *)
(* getsize, sleep ("io"), or has returned from run() ("done").             *)

MaxStarts == 4    \* button presses handled

\* LogMonitor(...).start()
NewMonitor == [stop |-> FALSE, at |-> "poll", log_dir |-> None]

is_alive(m) == m.at # "done"

\* self.monitor = LogMonitor(...); self.monitor.start()   (1398-1399)
StartThread(ms) == Append(ms, NewMonitor)

\* self.config.vrchat_log_dir = _expand_path(self.log_dir_var.get())  (1395),
\* the value the monitor created next starts with
ReadLogDirField ==
    /\ vrchat_log_dir' = log_dir_var
    /\ snapshot' = Append(snapshot, log_dir_var)

\* start_monitoring, up to the join inside stop_monitoring
StartMonitoring ==
    /\ ctl_pc = "idle"
    /\ nStarts < MaxStarts
    /\ nStarts' = nStarts + 1
    /\ IF monitor = None
       THEN /\ monitors' = StartThread(monitors)
            /\ monitor' = Some(Len(monitors) + 1)
            /\ ctl_pc' = "idle"
            /\ ReadLogDirField
       ELSE /\ monitors' = [monitors EXCEPT ![monitor[1]].stop = TRUE]
            /\ monitor' = monitor
            /\ ctl_pc' = "start_join"
            /\ UNCHANGED <<vrchat_log_dir, snapshot>>
    /\ UNCHANGED <<log_dir_var, trackerVars, tailVars>>

\* stop_monitoring, up to the join
StopMonitoring ==
    /\ ctl_pc = "idle"
    /\ nStarts < MaxStarts
    /\ nStarts' = nStarts + 1
    /\ IF monitor = None
       THEN UNCHANGED <<monitors, monitor, ctl_pc>>
       ELSE /\ monitors' = [monitors EXCEPT ![monitor[1]].stop = TRUE]
            /\ monitor' = monitor
            /\ ctl_pc' = "stop_join"
    /\ UNCHANGED <<vrchat_log_dir, log_dir_var, snapshot, trackerVars, tailVars>>

\* what follows self.monitor.join(timeout=2.0): self.monitor = None, and
\* in start_monitoring the new thread.  The result of join is not looked at.
AfterJoin ==
    /\ IF ctl_pc = "start_join"
       THEN /\ monitors' = StartThread(monitors)
            /\ monitor' = Some(Len(monitors) + 1)
            /\ ReadLogDirField
       ELSE /\ monitors' = monitors
            /\ monitor' = None
            /\ UNCHANGED <<vrchat_log_dir, snapshot>>
    /\ ctl_pc' = "idle"
    /\ UNCHANGED <<nStarts, log_dir_var, trackerVars, tailVars>>

\* join returns because the thread has ended
JoinReturns ==
    /\ ctl_pc \in {"start_join", "stop_join"}
    /\ ~is_alive(monitors[monitor[1]])
    /\ AfterJoin

\* join returns after 2 seconds: the thread is still inside a call
JoinTimesOut ==
    /\ ctl_pc \in {"start_join", "stop_join"}
    /\ monitors[monitor[1]].at = "io"
    /\ AfterJoin

ThreadStep(i, at) ==
    /\ monitors' = [monitors EXCEPT ![i].at = at]
    /\ UNCHANGED <<monitor, ctl_pc, nStarts, vrchat_log_dir, log_dir_var,
                   snapshot, trackerVars, tailVars>>

\* a loop test finds the stop signal clear: the thread goes into a call
ThreadCalls(i) ==
    /\ monitors[i].at = "poll"
    /\ ~monitors[i].stop
    /\ ThreadStep(i, "io")

\* the call returns
ThreadReturns(i) ==
    /\ monitors[i].at = "io"
    /\ ThreadStep(i, "poll")

\* a loop test or a wait finds the stop signal set: run() returns
ThreadEnds(i) ==
    /\ monitors[i].at = "poll"
    /\ monitors[i].stop
    /\ ThreadStep(i, "done")

NextCtl ==
    \/ StartMonitoring
    \/ StopMonitoring
    \/ JoinReturns
    \/ JoinTimesOut
    \/ \E i \in DOMAIN monitors : ThreadCalls(i)
    \/ \E i \in DOMAIN monitors : ThreadReturns(i)
    \/ \E i \in DOMAIN monitors : ThreadEnds(i)

SpecCtl == InitApp /\ [][NextCtl]_vars

\* the user types another directory into the settings form
EditLogDir(v) ==
    /\ ctl_pc = "idle"
    /\ v # log_dir_var
    /\ log_dir_var' = v
    /\ UNCHANGED <<monitors, monitor, ctl_pc, nStarts, vrchat_log_dir, snapshot,
                   trackerVars, tailVars>>

\* save_only -> _save_config (1375-1391): the configuration object the
\* running monitor holds is written in place
SaveOnly ==
    /\ ctl_pc = "idle"
    /\ vrchat_log_dir # log_dir_var
    /\ vrchat_log_dir' = log_dir_var
    /\ UNCHANGED <<monitors, monitor, ctl_pc, nStarts, log_dir_var, snapshot,
                   trackerVars, tailVars>>

\* run(): a Locating poll, log_dir = self._config.vrchat_log_dir (1080-1082),
\* followed by the isdir / scandir calls
LocatingPoll(i) ==
    /\ monitors[i].at = "poll"
    /\ ~monitors[i].stop
    /\ monitors' = [monitors EXCEPT ![i].at = "io",
                                    ![i].log_dir = Some(vrchat_log_dir)]
    /\ UNCHANGED <<monitor, ctl_pc, nStarts, vrchat_log_dir, log_dir_var,
                   snapshot, trackerVars, tailVars>>

NextSettings ==
    \/ StartMonitoring
    \/ StopMonitoring
    \/ JoinReturns
    \/ JoinTimesOut
    \/ \E v \in LogDirs : EditLogDir(v)
    \/ SaveOnly
    \/ \E i \in DOMAIN monitors : LocatingPoll(i)
    \/ \E i \in DOMAIN monitors : ThreadCalls(i)
    \/ \E i \in DOMAIN monitors : ThreadReturns(i)
    \/ \E i \in DOMAIN monitors : ThreadEnds(i)

SpecSettings == InitApp /\ [][NextSettings]_vars

----------------------------------------------------------------------------
(* Properties of the session tracker *)

\* the step handles one event of type op
EventStep(op) == nEvents' = nEvents + 1 /\ lastEv'.op = op

JoinEventOf(ev) == CHOOSE e \in JoinEvents : e.id = ev.id
LeftEventOf(ev) == CHOOSE e \in LeftEvents : e.id = ev.id
UserKeyOf(e) == Lower(Strip(e.user_id))
\* the seen_players key of user id u in session sid
UserJoinKey(sid, u) == JoinPrefix \o IntToStr(sid) \o <<":">> \o u

\* number of notifications handed to the desktop notifier
Dispatches(snt) == Cardinality({i \in DOMAIN snt : snt[i].sink = "notifier"})

\* the step delivers again the PlayerJoin that was delivered just before,
\* game running, for a user id that is not the local user's
SecondDelivery ==
    /\ EventStep("player_join")
    /\ lastEv' = lastEv
    /\ lastEv.running
    /\ UserKeyOf(JoinEventOf(lastEv)) # << >>
    /\ local_user_id # UserKeyOf(JoinEventOf(lastEv))
    /\ local_user_id' # UserKeyOf(JoinEventOf(lastEv))

SelfJoinOnFallback ==
    /\ EventStep("self_join") /\ lastEv'.running
    /\ ready /\ source = SourceFallback
    /\ IsSome(session_started_at)

\* C2 as stated: a SelfJoin less than 30s after the fallback session started,
\* with no tracked join or with a last-join gap of 0..4s, re-tags the session
\* "OnJoinedRoom" and keeps its id, players and timers.
C2_Original ==
    [][ ( /\ SelfJoinOnFallback
          /\ now' - session_started_at[1] < SESSION_FALLBACK_GRACE_SECONDS
          /\ \/ DOMAIN seen_players = {}
             \/ /\ IsSome(session_last_join_at)
                /\ now' - session_last_join_at[1]
                      \in 0 .. SESSION_FALLBACK_MAX_CONTINUATION_SECONDS )
        => /\ source' = ConfirmedSource
           /\ session_id' = session_id
           /\ seen_players' = seen_players
           /\ session_started_at' = session_started_at
           /\ session_last_join_at' = session_last_join_at ]_trackerVars

\* C3: a SelfJoin on a fallback session that is 30s old or more, or whose
\* last tracked join is more than 4s ago, opens session id + 1 tagged
\* "OnJoinedRoom" with no seen players, and pending_room keeps its value.
C3_FallbackExpired ==
    [][ ( /\ SelfJoinOnFallback
          /\ \/ now' - session_started_at[1] >= SESSION_FALLBACK_GRACE_SECONDS
             \/ /\ DOMAIN seen_players # {}
                /\ IsSome(session_last_join_at)
                /\ now' - session_last_join_at[1]
                      > SESSION_FALLBACK_MAX_CONTINUATION_SECONDS )
        => /\ session_id' = session_id + 1
           /\ ready' /\ source' = ConfirmedSource
           /\ seen_players' = EmptyMap
           /\ pending_room' = pending_room ]_trackerVars

C3_Witness ==
    /\ lastEv.op = "self_join" /\ lastEv.running
    /\ session_id = 2 /\ source = ConfirmedSource /\ seen_players = EmptyMap
    /\ IsSome(pending_room)
    /\ UserJoinKey(1, T_usr_1) \in DOMAIN lastSent

\* C4: after a PlayerLeft for a non-empty user id, seen_players holds no key
\* of the current session that starts with that user's join key.
C4_LeftRemovesUser ==
    [][ ( /\ EventStep("player_left")
          /\ UserKeyOf(LeftEventOf(lastEv')) # << >> )
        => \A k \in DOMAIN seen_players' :
              ~StartsWith(k, UserJoinKey(session_id',
                                         UserKeyOf(LeftEventOf(lastEv')))) ]_trackerVars

C4_Witness ==
    /\ lastEv.op = "player_left" /\ lastEv.id = "LA"
    /\ ready /\ session_id = 1
    /\ UserJoinKey(1, T_usr_1) \in DOMAIN lastSent
    /\ UserJoinKey(1, T_usr_1) \notin DOMAIN seen_players

\* the join would be dropped as the local player's own join (939-988)
TreatedAsLocal(e, t) ==
    \/ UserKeyOf(e) = local_user_id
    \/ MatchesPendingSelf(Tracker, normalize_join_name(e.name),
                          normalize_join_name(e.placeholder), t)
    \/ /\ is_placeholder_name(normalize_join_name(e.name))
       /\ source = SourceFallback /\ local_user_id = << >>

\* the step handles PlayerJoin(U), game running, in a session in which U was
\* notified and has left since, U not being taken for the local user
RejoinStep ==
    /\ EventStep("player_join") /\ lastEv'.running
    /\ ready
    /\ UserKeyOf(JoinEventOf(lastEv')) # << >>
    /\ UserJoinKey(session_id, UserKeyOf(JoinEventOf(lastEv'))) \in DOMAIN lastSent
    /\ UserJoinKey(session_id, UserKeyOf(JoinEventOf(lastEv')))
          \notin DOMAIN seen_players
    /\ ~TreatedAsLocal(JoinEventOf(lastEv'), now')

\* C5 as stated: the rejoin dispatches a notification, whatever the delay.
C5_Original == [][ RejoinStep => sent' # << >> ]_trackerVars

\* C5 amended: the rejoin is recorded in seen_players, and it dispatches a
\* notification exactly when 10s or more have passed since the last
\* notification dispatched for that user in the session.
C5_RejoinAfterCooldown ==
    [][ RejoinStep =>
          LET k == UserJoinKey(session_id, UserKeyOf(JoinEventOf(lastEv')))
          IN  /\ k \in DOMAIN seen_players'
              /\ Dispatches(sent') = 1
                 <=> now' - lastSent[k] >= NOTIFY_COOLDOWN_SECONDS ]_trackerVars

\* the fallback session was opened by Alice's join; she is tracked again at
\* a later time and the sinks were invoked for it
C5_Witness ==
    /\ lastEv.op = "player_join" /\ lastEv.id = "JA" /\ lastEv.running
    /\ ready /\ source = SourceFallback /\ session_id = 1
    /\ Dispatches(sent) = 1
    /\ UserJoinKey(1, T_usr_1) \in DOMAIN seen_players
    /\ seen_players[UserJoinKey(1, T_usr_1)]
          >= session_started_at[1] + NOTIFY_COOLDOWN_SECONDS

NotifyKeyOf(ev) == (CHOOSE k \in NotifyKeys : k.id = ev.id).key

\* C6: a notify_all call less than 10s after the last dispatched send for its
\* key invokes no sink; a call 10s or more after it (or the first call for
\* the key) invokes the sinks.
C6_Cooldown ==
    [][ EventStep("notify_all") =>
          LET k == NotifyKeyOf(lastEv')
          IN  IF k \in DOMAIN lastSent
                 /\ now' - lastSent[k] < NOTIFY_COOLDOWN_SECONDS
              THEN sent' = << >>
              ELSE sent' = << [sink |-> "notifier", key |-> k],
                              [sink |-> "pushover", key |-> k] >> ]_trackerVars

C6_Witness ==
    /\ lastEv.op = "notify_all" /\ repeated /\ nEvents = 2
    /\ now = NOTIFY_COOLDOWN_SECONDS + 1
    /\ Dispatches(sent) = 1

----------------------------------------------------------------------------
(* Properties of the tailing engine *)

\* C7: the engine never passes the same byte offset of the same file to
\* _process_line twice, as long as the file is only appended to.
C7_Original ==
    \A i, j \in DOMAIN processed :
        (/\ i < j
         /\ processed[i].file = processed[j].file
         /\ processed[i].off = processed[j].off)
        => processed[i].file \in truncated

\* number of times the line r was passed to _process_line
Deliveries(r) == Cardinality({i \in DOMAIN processed : processed[i] = r})

\* C8: no line loss.  Once the engine, not stopped, has left a file that
\* was only appended to, every complete line appended to that file while it
\* was followed has been passed to _process_line exactly once.
C8_Original ==
    \A r \in appended :
        (/\ ~stop
         /\ pc # "done"
         /\ normalized # Some(r.file)
         /\ r.file \notin truncated)
        => Deliveries(r) = 1

\* the step is the first successful open() of this call of _follow_file
FirstOpen == pc = "outer" /\ pc' = "inner" /\ opens = 0

\* the size found on entry to _follow_file, 0 when getsize raised OSError
Measured == IF entrySize = None THEN 0 ELSE entrySize[1]

\* the step passes a line to _process_line
Delivers == Len(processed') = Len(processed) + 1

\* C9 as stated: the first open of a file reads from byte offset 0.
C9_Original == [][FirstOpen => handle' = Some(0)]_vars

\* C9 as amended: the first open of a file seeks to the size measured on
\* entry to _follow_file (0 only when the file was empty or the measurement
\* failed), and unless the file is truncated no line below that offset is
\* passed to _process_line.
C9_FirstOpenAtMeasuredSize ==
    [][/\ FirstOpen => handle' = Some(Measured)
       /\ (Delivers /\ normalized[1] \notin truncated)
            => processed'[Len(processed')].off >= Measured]_vars

\* a file holding a line is opened for the first time, past that line
C9_Witness ==
    /\ tailStep = "open"
    /\ opens = 1
    /\ entrySize # None
    /\ Measured = Len(OldLine)
    /\ handle = Some(Measured)
    /\ files[normalized[1]] = OldLine

----------------------------------------------------------------------------
(* Properties of the controller *)

\* C10: at most one LogMonitor thread is alive at every moment.
C10_Original ==
    Cardinality({i \in DOMAIN monitors : is_alive(monitors[i])}) <= 1

\* the places where the thread waits
WaitPoints == {"dir_wait", "file_wait", "eof_wait", "sleep", "except"}

\* C11 (its part a finite run refutes): every wait of the thread is a wait
\* on the stop signal, so a thread that waits while the signal is set ends
\* with its next step; and the file handle is closed when the thread ends.
C11_Original ==
    [][ /\ (stop /\ pc \in WaitPoints /\ pc' # pc) => pc' = "done"
        /\ pc' = "done" => handle' = None ]_vars

----------------------------------------------------------------------------
(* Properties of the session tracker: resets, session ids, identity *)

\* C12: handle_log_switch resets all session state from any state: ready is
\* false, source empty, seen_players empty, pending_room, local_user_id and
\* pending_self_join None; session_id and last_notified are unchanged.
C12_LogSwitchResets ==
    [][ EventStep("log_switch") =>
          /\ ~ready' /\ source' = ""
          /\ seen_players' = EmptyMap
          /\ pending_room' = None
          /\ local_user_id' = << >>
          /\ pending_self_join' = None
          /\ session_id' = session_id
          /\ last_notified' = last_notified ]_vars

\* a log switch after a self join that opened session 1, learned the local
\* user id and was notified
C12_Witness ==
    /\ lastEv.op = "log_switch"
    /\ nEvents = 3 /\ IsSome(prevRoom)
    /\ session_id = 1 /\ ~ready
    /\ local_user_id = << >> /\ pending_self_join = None
    /\ SelfPrefix \o <<"1">> \in DOMAIN last_notified

\* C13 as stated: pending_room set by a RoomEnter is still held after
\* handle_log_switch.
C13_Original ==
    [][ (EventStep("log_switch") /\ IsSome(pending_room))
          => pending_room' = pending_room ]_vars

\* C13 as amended: a log switch clears pending_room, as a RoomLeft does; the
\* reset that carries it is the one a SelfJoin makes when it opens a session.
C13_RoomClearedBySwitch ==
    [][ /\ (EventStep("log_switch") \/ EventStep("room_left"))
             => pending_room' = None
        /\ (EventStep("self_join") /\ lastEv'.running)
             => pending_room' = pending_room ]_vars

\* a log switch handled right after a RoomEnter
C13_Witness ==
    /\ lastEv.op = "log_switch"
    /\ IsSome(prevRoom)
    /\ pending_room = None

\* C14: handle_room_left returns the tracker to NoSession from every state:
\* ready is false, seen_players, pending_room, local_user_id and
\* pending_self_join are cleared, session_id is unchanged.
C14_RoomLeftResets ==
    [][ EventStep("room_left") =>
          /\ ~ready'
          /\ seen_players' = EmptyMap
          /\ pending_room' = None
          /\ local_user_id' = << >>
          /\ pending_self_join' = None
          /\ session_id' = session_id ]_vars

\* a RoomLeft after two players were announced in session 1
C14_Witness ==
    /\ lastEv.op = "room_left"
    /\ session_id = 1 /\ ~ready /\ seen_players = EmptyMap
    /\ Cardinality(DOMAIN lastSent) = 2

\* the keys of session sid start with this
SessionKeyPrefix(sid) == JoinPrefix \o IntToStr(sid) \o <<":">>

\* C15: a PlayerJoin handled with no session open, game running, opens a
\* session with the next id and source "OnPlayerJoined fallback", and its
\* seen_players holds no key of an earlier session.
C15_FallbackOpens ==
    [][ (EventStep("player_join") /\ lastEv'.running /\ ~ready) =>
          /\ session_id' = session_id + 1
          /\ ready' /\ source' = SourceFallback
          /\ \A k \in DOMAIN seen_players' :
                StartsWith(k, SessionKeyPrefix(session_id')) ]_vars

\* session 2 was opened by a join after session 1 had announced a player
C15_Witness ==
    /\ lastEv.op = "player_join" /\ lastEv.running
    /\ session_id = 2 /\ ready /\ source = SourceFallback
    /\ DOMAIN seen_players # {}
    /\ \E k \in DOMAIN lastSent : StartsWith(k, SessionKeyPrefix(1))

\* the step opens a new session: a join with none open, or a self join that
\* does not confirm the open fallback session in place
OpensSession ==
    \/ EventStep("player_join") /\ lastEv'.running /\ ~ready
    \/ EventStep("self_join") /\ lastEv'.running /\ ~ReuseFallback(Tracker, now')

\* C16: session_id never decreases; it grows by exactly 1 when a session is
\* opened and is unchanged by every other step.
C16_SessionIdMonotonic ==
    [][ /\ session_id' >= session_id
        /\ OpensSession => session_id' = session_id + 1
        /\ ~OpensSession => session_id' = session_id ]_vars

\* a third session id was given out, the second by a self join
C16_Witness ==
    /\ session_id = 3
    /\ nEvents = 3
    /\ SelfPrefix \o <<"2">> \in DOMAIN lastSent

\* the step handles a join, leave or self-join event while the game is
\* reported as not running
IgnoredStep ==
    /\ EventStep("player_join") \/ EventStep("player_left")
       \/ EventStep("self_join")
    /\ ~lastEv'.running

\* C17: a PlayerJoin, PlayerLeft or SelfJoin handled while the game is not
\* running changes no session state and dispatches no notification.
C17_Original ==
    [][ IgnoredStep =>
          /\ UNCHANGED <<ready, session_id, source, seen_players,
                         local_user_id, pending_self_join, pending_room>>
          /\ sent' = << >> ]_vars

\* C18: once local_user_id is known, a PlayerJoin whose user id equals it
\* case-insensitively dispatches no notification and leaves seen_players
\* unchanged.
C18_LocalUserSuppressed ==
    [][ ( /\ EventStep("player_join")
          /\ local_user_id # << >>
          /\ UserKeyOf(JoinEventOf(lastEv')) = local_user_id )
        => /\ sent' = << >>
           /\ seen_players' = seen_players ]_vars

\* the join of "Alice (Usr_1)" is handled, game running, when the local user
\* id is known as usr_1
C18_Witness ==
    /\ lastEv.op = "player_join" /\ lastEv.id = "JA" /\ lastEv.running
    /\ local_user_id = T_usr_1
    /\ ready
    /\ sent = << >>
    /\ UserJoinKey(session_id, T_usr_1) \notin DOMAIN seen_players

SelfEventOf(ev) == CHOOSE e \in SelfEvents : e.id = ev.id
\* the user id a SelfJoin line carries, lower-cased
SelfUserOf(e) ==
    IF IsSome(e.parsed) THEN Lower(Strip(e.parsed[1].user_id)) ELSE << >>

\* the step handles a placeholder-named event of type op that carries a user
\* id, while no local user id is known
PlaceholderStep(op, e) ==
    /\ EventStep(op)
    /\ is_placeholder_name(normalize_join_name(e.name))
    /\ UserKeyOf(e) # << >>
    /\ local_user_id = << >>

\* C19: a user id carried by a SelfJoin is recorded as local_user_id; one
\* carried by a placeholder-named PlayerJoin or PlayerLeft is recorded, when
\* none is known, exactly when the session source is "OnPlayerJoined
\* fallback"; nothing else sets local_user_id.
C19_Original ==
    [][ /\ ( /\ EventStep("self_join") /\ lastEv'.running
             /\ SelfUserOf(SelfEventOf(lastEv')) # << >> )
           => local_user_id' = SelfUserOf(SelfEventOf(lastEv'))
        /\ ( /\ PlaceholderStep("player_join", JoinEventOf(lastEv'))
             /\ lastEv'.running )
           => ( local_user_id' = UserKeyOf(JoinEventOf(lastEv'))
                <=> source' = SourceFallback )
        /\ PlaceholderStep("player_left", LeftEventOf(lastEv'))
           => ( local_user_id' = UserKeyOf(LeftEventOf(lastEv'))
                <=> source = SourceFallback )
        /\ (local_user_id' # local_user_id /\ local_user_id' # << >>)
           => \/ EventStep("self_join")
              \/ PlaceholderStep("player_join", JoinEventOf(lastEv'))
              \/ PlaceholderStep("player_left", LeftEventOf(lastEv')) ]_vars

-----------------------------------------------------------------------------
(* Properties of the pending self join *)

PlaceholderClass == {<<"p","l","a","y","e","r">>, <<"y","o","u">>}

\* the placeholder a join event stands under: its own placeholder, or its
\* name when that is a placeholder and it carries none
EventPlaceholder(e) ==
    IF normalize_join_name(e.placeholder) # << >>
    THEN Lower(normalize_join_name(e.placeholder))
    ELSE IF is_placeholder_name(normalize_join_name(e.name))
         THEN Lower(normalize_join_name(e.name)) ELSE << >>

\* the step handles a join, game running, while a self join of the current
\* session is pending
PendingJoinStep ==
    /\ EventStep("player_join") /\ lastEv'.running
    /\ IsSome(pending_self_join)
    /\ pending_self_join[1].session_id = session_id'

\* seconds from the pending self join to the join the step handles
PendingAge == now' - pending_self_join[1].timestamp

\* the join the step handles is of the placeholder class of the pending record
SamePlaceholder ==
    /\ Lower(pending_self_join[1].placeholder) \in PlaceholderClass
    /\ EventPlaceholder(JoinEventOf(lastEv')) = Lower(pending_self_join[1].placeholder)

\* C20: a PlayerJoin matching pending_self_join (same session, placeholder
\* class, less than 10 s after the SelfJoin) dispatches no notification,
\* leaves seen_players unchanged and clears pending_self_join; 10 s or more
\* after the SelfJoin the same join is announced and recorded, and the
\* pending record stays.
C20_PendingSelfConsumed ==
    [][ /\ (PendingJoinStep /\ SamePlaceholder
            /\ PendingAge < PendingSelfJoinWindow)
           => /\ sent' = << >>
              /\ seen_players' = seen_players
              /\ pending_self_join' = None
        /\ (PendingJoinStep /\ SamePlaceholder
            /\ PendingAge >= PendingSelfJoinWindow
            /\ UserKeyOf(JoinEventOf(lastEv')) # local_user_id
            /\ UserJoinKey(session_id', UserKeyOf(JoinEventOf(lastEv')))
                  \notin DOMAIN seen_players)
           => /\ Len(sent') > 0
              /\ UserJoinKey(session_id', UserKeyOf(JoinEventOf(lastEv')))
                    \in DOMAIN seen_players'
              /\ pending_self_join' = pending_self_join ]_vars

\* "Player (usr_1)" joined 10 s after a plain self join and was announced
C20_LateWitness ==
    /\ lastEv.op = "player_join" /\ lastEv.id = "JP"
    /\ nEvents = 2
    /\ now = 10
    /\ IsSome(pending_self_join)
    /\ Len(sent) > 0

\* "Player (usr_1)" joined 9 s after a plain self join and was consumed
C20_Witness ==
    /\ lastEv.op = "player_join" /\ lastEv.id = "JP"
    /\ nEvents = 2
    /\ now = 9
    /\ source = "OnJoinedRoom"
    /\ pending_self_join = None
    /\ DOMAIN seen_players = {}
    /\ sent = << >>

-----------------------------------------------------------------------------
(* Properties of the join dedup key *)

DedupEventOf(ev) == CHOOSE e \in DedupJoins : e.id = ev.id

\* the key the spec gives a join: join:<sid>:<user id>, or without a user id
\* join:<sid>:<lower-cased name>:<short hash of the raw line>
SpecJoinKey(sid, e) ==
    IF UserKeyOf(e) # << >>
    THEN UserJoinKey(sid, UserKeyOf(e))
    ELSE UserJoinKey(sid, Lower(normalize_join_name(e.name)))
         \o <<":">> \o get_short_hash(e.raw_line)

\* C21: the dedup key prefers the user id over the name. A join handled in a
\* session adds at most its own key to seen_players, and afterwards that key
\* is there: join:<sid>:<lower-cased user id> when the event carries a user
\* id, whatever its name or raw line, and with the raw-line hash suffix only
\* when it carries none. Joins with the same user id share one entry, joins
\* with different user ids and one name have two.
C21_KeyPrefersUserId ==
    [][ EventStep("player_join") =>
          LET e == DedupEventOf(lastEv')
              before == IF session_id' = session_id THEN seen_players
                        ELSE EmptyMap
          IN  /\ SpecJoinKey(session_id', e) \in DOMAIN seen_players'
              /\ DOMAIN seen_players' \ DOMAIN before
                    \subseteq {SpecJoinKey(session_id', e)} ]_vars

\* "Alice (Usr_1)" and "Alicia (usr_1)" joined one session and left one
\* entry, the second one unannounced
C21_Witness ==
    /\ nEvents = 2
    /\ lastEv.op = "player_join" /\ lastEv.id \in {"JA", "JD"}
    /\ session_id = 1
    /\ DOMAIN seen_players = {UserJoinKey(1, T_usr_1)}
    /\ Len(sent) = 0
    /\ UserJoinKey(1, T_usr_1) \in DOMAIN lastSent

\* "Alice (Usr_1)", "Alice (usr_12)" and the two Bob lines each have their
\* own entry
C21_DistinctWitness ==
    \/ /\ nEvents = 2
       /\ DOMAIN seen_players = {UserJoinKey(1, T_usr_1), UserJoinKey(1, T_usr_12)}
    \/ /\ nEvents = 2
       /\ Cardinality(DOMAIN seen_players) = 2
       /\ \A k \in DOMAIN seen_players :
             StartsWith(k, UserJoinKey(1, Lower(T_Bob)) \o <<":">>)

-----------------------------------------------------------------------------
(* Properties of the buffered room *)

\* C22: a room buffered in pending_room by a RoomEnter stays there,
\* unchanged, through every PlayerJoin, SelfJoin and PlayerLeft: through the
\* opening of a session by either path and through a fallback confirmation
\* or expiry. Only a RoomEnter, a RoomLeft or a LogSwitch writes it.
C22_RoomStaysBuffered ==
    [][ /\ (EventStep("player_join") \/ EventStep("self_join")
            \/ EventStep("player_left"))
           => pending_room' = pending_room
        /\ EventStep("room_enter") => IsSome(pending_room') ]_vars

\* a room was entered after a room left, and the self join that followed
\* opened a session with the room still buffered
C22_Witness ==
    /\ nEvents = 3
    /\ lastEv.op = "self_join" /\ lastEv.running
    /\ ready /\ session_id = 1 /\ source = "OnJoinedRoom"
    /\ IsSome(prevRoom)
    /\ pending_room = prevRoom

\* a fallback session opened by a join was confirmed, or replaced on expiry,
\* by a self join, the room still buffered
C22_FallbackWitness ==
    /\ nEvents = 3
    /\ lastEv.op = "self_join" /\ lastEv.running
    /\ ready /\ source = "OnJoinedRoom"
    /\ DOMAIN last_notified # {}
    /\ \E k \in DOMAIN lastSent : StartsWith(k, JoinPrefix)
    /\ IsSome(prevRoom)
    /\ pending_room = prevRoom

-----------------------------------------------------------------------------
(* Properties of the hand-off between log files *)

\* g is the only file get_newest_log_path can return, and stop is not set
StaysPick(g) == get_newest_log_path = {Some(g)} /\ ~stop

\* the thread follows g and has announced it
HandedOffTo(g) ==
    /\ Following(g)
    /\ \E i \in DOMAIN queue : queue[i] = <<"log_switch", g>>

\* C23: whenever a file becomes and stays the pick of get_newest_log_path
\* while the monitor is not stopped, the monitor eventually follows it and
\* has emitted its log_switch, whatever the state of the file it followed
\* before (idle, grown, deleted).
C23_Original ==
    \A g \in Candidates : <>[]StaysPick(g) => <>HandedOffTo(g)

-----------------------------------------------------------------------------
(* Properties of the monitor's error handling *)

\* C24: an OSError of open() or readline() on the followed file takes the
\* monitor to its except clause; there it enqueues one error event, waits on
\* stop, and without stop goes back to open the same path, which seeks to
\* last_size; no log_switch is emitted on the way, and run() returns only
\* when stop is set.
C24_RetriesSamePath ==
    [][ /\ (pc \in {"outer", "inner"} /\ nErrors' > nErrors)
           => /\ pc' = "except"
              /\ UNCHANGED <<normalized, last_size, queue>>
        /\ (pc = "except" /\ pc' # pc)
           => /\ queue' = Append(queue, <<"error">>)
              /\ pc' = (IF stop THEN "done" ELSE "outer")
              /\ ~stop => UNCHANGED <<normalized, last_size>>
        /\ (pc = "outer" /\ pc' = "inner")
           => /\ handle' = Some(last_size)
              /\ UNCHANGED <<normalized, last_size, queue>>
        /\ (pc # "done" /\ pc' = "done") => stop ]_vars

\* a read failed after a line had been read, the error was enqueued, and the
\* same file was opened again at the offset reached, with no second
\* log_switch
C24_Witness ==
    /\ tailStep = "open" /\ pc = "inner"
    /\ nErrors = 1 /\ opens = 2
    /\ Len(processed) > 0
    /\ handle = Some(last_size) /\ last_size > 0
    /\ queue = <<<<"log_switch", normalized[1]>>, <<"error">>>>
    /\ ~stop

-----------------------------------------------------------------------------
(* Properties of the truncation test *)

\* the size check finds the followed file shorter than last_size
TruncationSeen ==
    /\ pc = "size_check" /\ pc' # pc
    /\ nErrors' = nErrors
    /\ Len(files[normalized[1]]) < last_size

\* C25: when the size check after an EOF wait finds the followed file
\* smaller than last_size, the monitor seeks to 0 and sets last_size to 0 on
\* the same file, emits no log_switch, and the next line it passes to
\* _process_line is the line at offset 0 of that file.
C25_TruncationRewinds ==
    [][ /\ TruncationSeen
           => /\ handle' = Some(0) /\ last_size' = 0
              /\ pc' = "inner"
              /\ UNCHANGED <<normalized, queue, processed>>
        /\ ( /\ tailStep = "size_check" /\ pc = "inner" /\ handle = Some(0)
             /\ Len(processed') > Len(processed) )
           => processed'[Len(processed')] =
                 [file |-> normalized[1], off |-> 0,
                  text |-> rstrip(readline(files[normalized[1]], 0))] ]_vars

\* the followed file was truncated and written again, and its new first
\* line was passed to _process_line after the rewind
C25_Witness ==
    /\ normalized # None /\ normalized[1] \in truncated
    /\ tailStep = "read"
    /\ Len(processed) > 0
    /\ processed[Len(processed)].off = 0
    /\ processed[Len(processed)].file = normalized[1]
    /\ entrySize # None /\ entrySize[1] > 0
    /\ opens = 1
    /\ nErrors = 0
    /\ Len(queue) = 1

-----------------------------------------------------------------------------
(* Properties of the configuration seen by the monitor *)

\* C26: the log directory a monitor uses is the one of the configuration
\* when it was started: at every Locating poll, log_dir is that value,
\* whatever was saved to the configuration since.
C26_Original ==
    \A i \in DOMAIN monitors :
        monitors[i].log_dir # None => monitors[i].log_dir[1] = snapshot[i]

-----------------------------------------------------------------------------
(* Properties of the sinks *)

-----------------------------------------------------------------------------
(* Properties of the line classification *)

\* the event types _process_line is to give a line with the markers F
ExpectedTypes(F) ==
    IF "L" \in F THEN <<"room_left">>
    ELSE IF "R" \in F THEN <<"room_enter">>
    ELSE IF "B" \in F /\ "S" \in F THEN <<"self_join">>
    ELSE IF "B" \in F /\ "PL" \in F THEN <<"player_left">>
    ELSE IF "B" \in F /\ "PJ" \in F THEN <<"player_join">>
    ELSE << >>

\* C28: _process_line puts at most one event on the queue per line, chosen
\* in this order: the left-room keyword, a room transition, self join,
\* player left, player join; a line matching none gives no event.
C28_PriorityOrder ==
    fn_result # None /\ fn_arg[1] \in ClassifyLines =>
        LET ev == fn_result[1]
        IN  /\ Len(ev) <= 1
            /\ [i \in DOMAIN ev |-> ev[i].type] = ExpectedTypes(fn_arg[1].frags)

\* a line with the [Behaviour] tag, a room transition and all three player
\* tokens was classified as a room transition
C28_Witness ==
    /\ fn_arg # None /\ fn_result # None
    /\ fn_arg[1] \in ClassifyLines
    /\ fn_arg[1].frags = {"B", "R", "S", "PL", "PJ"}
    /\ Len(fn_result[1]) = 1
    /\ fn_result[1][1].type = "room_enter"

-----------------------------------------------------------------------------
(* Properties of the player line parser *)

\* C29: for a line with a displayName key, a name and a parenthesized user
\* id, as "[Behaviour] OnPlayerJoined displayName: Alice (usr_1234)",
\* parse_player_event_line returns the name without the identifier and the
\* user id.
C29_Original ==
    ( /\ fn_result # None /\ fn_arg[1] \in ParseLines
      /\ Contains(Lower(fn_arg[1].key), <<"d","i","s","p","l","a","y","n","a","m","e">>)
      /\ fn_arg[1].name = T_Alice
      /\ fn_arg[1].user = <<" ","(","u","s","r","_","1","2","3","4",")">> )
    => /\ fn_result[1] # None
       /\ fn_result[1][1].name = T_Alice
       /\ fn_result[1][1].user_id = <<"u","s","r","_","1","2","3","4">>

\* the score the locator is to maximise: the latest of the modification
\* time, the change time and, when the name carries a valid date, the time
\* in the name
LatestTime(e) ==
    LET own == {e.stat[1].st_mtime, e.stat[1].st_ctime}
        named == IF RotationMatch(e.name) # None
                    /\ ValidDate(RotationMatch(e.name)[1])
                 THEN {timestamp(RotationMatch(e.name)[1])} ELSE {}
    IN  CHOOSE t \in own \cup named : \A u \in own \cup named : u <= t

\* the regular files of a listing that carry a log name
CandidatesIn(d) ==
    {d.entries[i] : i \in {j \in DOMAIN d.entries : IsLogCandidate(d.entries[j])}}

\* the listing succeeds and every candidate is still there to be examined
Examinable(d) ==
    /\ ~d.scan_fails
    /\ \A e \in CandidatesIn(d) : e.stat # None

\* C30: get_newest_log_path returns None when the directory is absent or
\* holds no candidate, and otherwise a candidate whose latest time
\* (modification, change, or the valid time in its name) no other candidate
\* exceeds
C30_NewestHasGreatestScore ==
    (fn_result # None /\ Examinable(fn_arg[1])) =>
        LET d == fn_arg[1]
            r == fn_result[1]
        IN  IF d.log_dir = "" \/ ~d.isdir \/ CandidatesIn(d) = {}
            THEN r = None
            ELSE /\ r # None
                 /\ \E e \in CandidatesIn(d) :
                       /\ e.name = r[1]
                       /\ \A c \in CandidatesIn(d) :
                             LatestTime(c) <= LatestTime(e)

\* The file returned wins by the time in its name against a candidate
\* with later file times
C30_Witness ==
    /\ fn_result = Some(Some(N_1210))
    /\ Examinable(fn_arg[1])
    /\ \E e, c \in CandidatesIn(fn_arg[1]) :
          /\ e.name = N_1210
          /\ c.name = N_1200
          /\ e.stat[1].st_mtime < c.stat[1].st_mtime
          /\ e.stat[1].st_ctime < c.stat[1].st_mtime

----------------------------------------------------------------------------
(* Properties of the session life cycle *)

\* the step handles a SelfJoin while the game is running
RunningSelfJoin == EventStep("self_join") /\ lastEv'.running

\* C31: a SelfJoin handled while the game is running leaves the tracker
\* ready with source "OnJoinedRoom"; when the open session is not a fallback
\* session it opens a new session: session_id + 1, seen_players empty,
\* local_user_id the id on the SelfJoin line or none.
C31_SelfJoinConfirms ==
    [][ RunningSelfJoin =>
          /\ ready' /\ source' = ConfirmedSource
          /\ ~(ready /\ source = SourceFallback) =>
                /\ session_id' = session_id + 1
                /\ seen_players' = EmptyMap
                /\ local_user_id' = SelfUserOf(SelfEventOf(lastEv')) ]_vars

\* The plain SelfJoin handled right after another SelfJoin: the confirmed
\* session 1 was superseded by session 2 and no local user id is known
C31_Witness ==
    /\ lastEv.op = "self_join" /\ lastEv.id = "S0" /\ lastEv.running
    /\ nEvents = 2
    /\ session_id = 2
    /\ ready /\ source = ConfirmedSource
    /\ local_user_id = << >>
    /\ IsSome(pending_self_join) /\ pending_self_join[1].session_id = 2
    /\ last_notified # EmptyMap
    /\ SelfPrefix \o <<"1">> \in DOMAIN last_notified

\* C32: a notify_all call suppressed by the cooldown leaves last_notified
\* unchanged and a dispatched one records its own time, so the table always
\* holds the time of the last dispatched send of each key; a call exactly
\* 10 seconds after the last dispatch for its key is dispatched.
C32_SuppressedKeepsCooldown ==
    [][ EventStep("notify_all") =>
          LET k == NotifyKeyOf(lastEv')
          IN  /\ sent' = << >> => last_notified' = last_notified
              /\ sent' # << >> => last_notified' = MapPut(last_notified, k, now')
              /\ last_notified' = lastSent'
              /\ (k \in DOMAIN lastSent
                    /\ now' - lastSent[k] = NOTIFY_COOLDOWN_SECONDS)
                 => sent' # << >> ]_vars

\* Three calls for one key 6 seconds apart: the call at 6s was suppressed
\* and the call at 12s is dispatched
C32_Witness ==
    /\ lastEv.op = "notify_all" /\ repeated /\ nEvents = 3
    /\ now = 12
    /\ Dispatches(sent) = 1
    /\ last_notified[NotifyKeyOf(lastEv)] = 12
    /\ DOMAIN last_notified = {NotifyKeyOf(lastEv)}

-----------------------------------------------------------------------------
(* Properties of the order of events in the queue *)

\* the log_switch events of a queue, in order
Switches(q) == SelectSeq(q, LAMBDA e : e[1] = "log_switch")

\* the file of the last log_switch of a queue
LastSwitch(q) ==
    IF Switches(q) = << >> THEN None
    ELSE Some(Switches(q)[Len(Switches(q))][2])

\* C33: a line is passed to _process_line, which enqueues its event, only
\* while the last log_switch in the queue is the one of the file the line
\* was read from; entering _follow_file enqueues exactly one log_switch,
\* for the file entered, and no other step of the monitor enqueues one, so
\* that opening the same file again after a read error or a failed size
\* check adds none.
C33_OneSwitchPerEntry ==
    [][ /\ Len(processed') > Len(processed)
           => LastSwitch(queue') = Some(processed'[Len(processed')].file)
        /\ (pc = "enter" /\ pc' # pc)
           => queue' = Append(queue, <<"log_switch", normalized[1]>>)
        /\ Switches(queue') # Switches(queue) => pc = "enter"
        /\ (pc = "outer" /\ pc' = "inner") => queue' = queue ]_vars

\* the size check failed, the file was opened a second time, and a line
\* was read from it, with the one log_switch of the entry in the queue
C33_Witness ==
    /\ tailStep = "read" /\ Len(processed) > 0
    /\ opens = 2 /\ nErrors = 1
    /\ entrySize # None
    /\ queue = <<<<"log_switch", processed[Len(processed)].file>>>>

-----------------------------------------------------------------------------
(* Properties of the time of the last join *)

\* the step handles a PlayerJoin while the game is running
RunningPlayerJoin == EventStep("player_join") /\ lastEv'.running

\* a SelfJoin arrives on a fallback session that has announced a join,
\* within the grace period
SelfJoinInGrace ==
    /\ RunningSelfJoin
    /\ ready /\ source = SourceFallback
    /\ seen_players # EmptyMap
    /\ IsSome(session_last_join_at)
    /\ now' - session_started_at[1] < SESSION_FALLBACK_GRACE_SECONDS

\* C34: every PlayerJoin handled while the game is running sets
\* session_last_join_at to its time, whether the join is announced or
\* dropped; a SelfJoin that opens a session and every reset set it to None;
\* no other event changes it; and the continuation gap of a SelfJoin is
\* the time since that value: a gap of 1..4 seconds keeps the session, a
\* longer one opens a new session.
C34_LastJoinIsLastEvent ==
    [][ /\ RunningPlayerJoin => session_last_join_at' = Some(now')
        /\ (RunningSelfJoin /\ session_id' # session_id)
              => session_last_join_at' = None
        /\ EventStep("room_left") => session_last_join_at' = None
        /\ (nEvents' = nEvents + 1 /\ ~RunningPlayerJoin
              /\ ~EventStep("room_left")
              /\ ~(RunningSelfJoin /\ session_id' # session_id))
              => session_last_join_at' = session_last_join_at
        /\ SelfJoinInGrace =>
              LET gap == now' - session_last_join_at[1]
              IN  /\ gap \in 1..SESSION_FALLBACK_MAX_CONTINUATION_SECONDS
                        => session_id' = session_id
                  /\ gap > SESSION_FALLBACK_MAX_CONTINUATION_SECONDS
                        => session_id' = session_id + 1 ]_vars

\* A join announced at 0s and repeated at 3s, then the SelfJoin at 6s: the
\* session was kept, 3 seconds after the repeated join and 6 seconds after
\* the announced one
C34_Witness ==
    /\ lastEv.op = "self_join" /\ lastEv.running
    /\ nEvents = 3 /\ now = 6
    /\ session_id = 1 /\ source = ConfirmedSource
    /\ session_last_join_at = Some(3)
    /\ \E k \in DOMAIN seen_players : seen_players[k] = 0

-----------------------------------------------------------------------------
(* Invariants of the tracker state *)

\* C35: while ready is false, seen_players is empty, source is the empty
\* string, session_started_at is None and pending_self_join is None; while
\* ready is true, session_id >= 1, source is non-empty and
\* session_started_at is set.
C35_ReadyShape ==
    /\ ~ready => /\ seen_players = EmptyMap
                 /\ source = ""
                 /\ session_started_at = None
                 /\ pending_self_join = None
    /\ ready => /\ session_id >= 1
                /\ source # ""
                /\ IsSome(session_started_at)

\* a session opened by a SelfJoin was closed: the tracker is not ready, its
\* session id stays, and the self-join notification of the session is on
\* record
C35_Witness ==
    /\ ~ready /\ session_id = 1 /\ nEvents = 2
    /\ lastEv.op \in {"room_left", "log_switch"}
    /\ SelfPrefix \o <<"1">> \in DOMAIN last_notified

\* C36: every key of seen_players starts with join:<current session_id>: ;
\* no entry of an earlier session survives a session change, and the entries
\* of a fallback session confirmed in place are those of the current session.
C36_SeenScopedToSession ==
    \A key \in DOMAIN seen_players :
        StartsWith(key, SessionKeyPrefix(session_id))

\* a fallback session was confirmed in place by a SelfJoin and keeps the
\* entry of the join that opened it
C36_Witness ==
    /\ lastEv.op = "self_join" /\ lastEv.running
    /\ ready /\ source = ConfirmedSource /\ session_id = 1
    /\ nEvents = 2
    /\ DOMAIN seen_players # {}

-----------------------------------------------------------------------------
(* Properties of a player's leaving *)

\* C37: handle_player_left for user id A removes the seen_players entries
\* of user A only: the entry of every other user id B, ids of which A is a
\* proper prefix included (usr_1 and usr_12), is unchanged.
C37_Original ==
    [][ EventStep("player_left") =>
          \A key \in DOMAIN seen_players :
              key # UserJoinKey(session_id, UserKeyOf(LeftEventOf(lastEv')))
                 => /\ key \in DOMAIN seen_players'
                    /\ seen_players'[key] = seen_players[key] ]_vars

-----------------------------------------------------------------------------
(* Properties of the lines read under a concurrent writer *)

\* C38: every text passed to _process_line is one complete line of the
\* file: it starts at the start of a line and ends at a newline of the file,
\* also when the writer has written only part of a line when the reader
\* reaches the end of the file.
C38_Original ==
    [][ Len(processed') > Len(processed) =>
          LET r == processed'[Len(processed')]
          IN  /\ r.off = 0 \/ files[r.file][r.off] = "\n"
              /\ files[r.file][last_size'] = "\n" ]_vars

-----------------------------------------------------------------------------
(* Properties of the self-join notification *)

\* C39: every SelfJoin handled while the game is running dispatches exactly
\* one self-join notification to each sink: its key self:<session_id> was
\* used by no earlier notify_all call, so the cooldown never suppresses it.
C39_SelfJoinAlwaysNotifies ==
    [][ RunningSelfJoin =>
          LET key == SelfPrefix \o IntToStr(session_id')
          IN  /\ key \notin DOMAIN last_notified
              /\ key \notin DOMAIN lastSent
              /\ Dispatches(sent') = 1
              /\ \A i \in DOMAIN sent' : sent'[i].key = key
              /\ last_notified' = MapPut(last_notified, key, now') ]_vars

\* Three SelfJoins handled at the same second: each one opened its own
\* session and was announced under its own key
C39_Witness ==
    /\ lastEv.op = "self_join" /\ lastEv.running
    /\ nEvents = 3 /\ now = 0
    /\ session_id = 3
    /\ Dispatches(sent) = 1
    /\ DOMAIN last_notified =
          {SelfPrefix \o <<"1">>, SelfPrefix \o <<"2">>, SelfPrefix \o <<"3">>}

-----------------------------------------------------------------------------
(* Properties of the pending self join *)

\* the step handles, game running, a PlayerJoin that is not the known local
\* user's and that matches the pending self join
PendingMatchStep ==
    /\ RunningPlayerJoin
    /\ LET e == JoinEventOf(lastEv')
       IN  /\ ~KnownLocalUser(Tracker, Strip(e.user_id))
           /\ MatchesPendingSelf(Tracker, normalize_join_name(e.name),
                                 normalize_join_name(e.placeholder), now')

\* the step handles, game running, a PlayerJoin of the known local user
KnownLocalStep ==
    /\ RunningPlayerJoin
    /\ ready
    /\ KnownLocalUser(Tracker, Strip(JoinEventOf(lastEv').user_id))

\* C40: whenever pending_self_join is set, its session_id is the current
\* session_id, ready is true and source is "OnJoinedRoom"; the record is set
\* by a SelfJoin only and is cleared by the first join that matches it
\* (which is not announced), by a join of the known local user and by every
\* reset, so a SelfJoin has at most one later PlayerJoin consumed by the
\* match.
C40_PendingSelfJoinScoped ==
    /\ [](IsSome(pending_self_join) =>
             /\ pending_self_join[1].session_id = session_id
             /\ ready
             /\ source = ConfirmedSource)
    /\ [][ /\ (IsSome(pending_self_join') /\ pending_self_join' # pending_self_join)
              => RunningSelfJoin
           /\ PendingMatchStep =>
                 /\ pending_self_join' = None
                 /\ seen_players' = seen_players
                 /\ sent' = << >>
           /\ KnownLocalStep => pending_self_join' = None
           /\ (EventStep("room_left") \/ EventStep("log_switch"))
              => pending_self_join' = None ]_vars

\* The placeholder join that follows a SelfJoin at once was consumed by the
\* match: nothing was announced for it, the record is cleared, the local
\* user id was learnt from it
C40_Witness ==
    /\ lastEv.op = "player_join" /\ lastEv.id = "JP" /\ lastEv.running
    /\ nEvents = 2 /\ now = 0
    /\ session_id = 1 /\ ready /\ source = ConfirmedSource
    /\ pending_self_join = None
    /\ seen_players = EmptyMap
    /\ local_user_id = T_usr_1
    /\ DOMAIN last_notified = {SelfPrefix \o <<"1">>}

====
